---------------------------- MODULE Spec2Model ----------------------------
(***************************************************************************)
(* A model of the qry file-search engine (qry/engines/simple.py,           *)
(* qry/engines/fast_search.py, qry/__init__.py).                           *)
(*                                                                         *)
(* Strings are sequences of one-character strings.  An Optional value is   *)
(* a sequence of length at most one: None is << >>, a value v is << v >>.  *)
(***************************************************************************)
EXTENDS Integers, Sequences, FiniteSets, TLC

(***************************************************************************)
(* Python string primitives                                                *)
(***************************************************************************)

None == << >>

Some(v) == << v >>

\* str.lower() / bytes.lower() on the ASCII letters of the model's alphabet
\* mutant of Lower: letters keep their case
LowerMutant(c) == c

Lower(c) ==
    CASE c = "A" -> "a"
      [] c = "B" -> "b"
      [] OTHER -> c

LowerS(s) == [i \in 1..Len(s) |-> Lower(s[i])]

\* the characters str.strip() removes
IsSpace(c) == c \in {" ", "\n"}

\* sub occurs in s at (1-based) position i
IsAt(s, sub, i) ==
    /\ i >= 1
    /\ i + Len(sub) - 1 <= Len(s)
    /\ \A k \in 1..Len(sub) : s[i + k - 1] = sub[k]

\* Python's  sub in s
Contains(s, sub) == \E i \in 1..(Len(s) - Len(sub) + 1) : IsAt(s, sub, i)

\* s.find(sub, start) with 1-based positions; 0 when there is no occurrence
Find(s, sub, start) ==
    LET hits == {i \in start..(Len(s) - Len(sub) + 1) : IsAt(s, sub, i)}
    IN  IF hits = {} THEN 0 ELSE CHOOSE i \in hits : \A j \in hits : i <= j

\* s[from..to] (1-based, inclusive); empty when from > to
Slice(s, from, to) == [i \in 1..(to - from + 1) |-> s[from + i - 1]]

RECURSIVE SplitFrom(_, _, _)
\* s.split(sep) from position start: left to right, occurrences do not overlap
SplitFrom(s, sep, start) ==
    LET idx == Find(s, sep, start)
    IN  IF idx = 0
        THEN << Slice(s, start, Len(s)) >>
        ELSE << Slice(s, start, idx - 1) >> \o SplitFrom(s, sep, idx + Len(sep))

Split(s, sep) == SplitFrom(s, sep, 1)

RECURSIVE LStrip(_)
LStrip(s) == IF s # << >> /\ IsSpace(s[1]) THEN LStrip(Tail(s)) ELSE s

RECURSIVE RStrip(_)
RStrip(s) ==
    IF s # << >> /\ IsSpace(s[Len(s)]) THEN RStrip(Slice(s, 1, Len(s) - 1)) ELSE s

\* str.strip()
Strip(s) == RStrip(LStrip(s))

RECURSIVE LStripDots(_)
\* str.lstrip('.')
LStripDots(s) == IF s # << >> /\ s[1] = "." THEN LStripDots(Tail(s)) ELSE s

\* the non-empty strings of seq, in order
RECURSIVE SelectNonBlank(_)
SelectNonBlank(seq) ==
    IF seq = << >> THEN << >>
    ELSE IF Head(seq) # << >>
         THEN << Head(seq) >> \o SelectNonBlank(Tail(seq))
         ELSE SelectNonBlank(Tail(seq))

Range(f) == {f[i] : i \in DOMAIN f}

OrDelimiter == << " ", "o", "r", " " >>

\* mutant of OrTerms: only the first alternative is kept
OrTermsMutant(query_lower) ==
    LET parts == Split(query_lower, OrDelimiter)
        terms == SelectNonBlank([i \in 1..Len(parts) |-> Strip(parts[i])])
    IN  IF terms = << >> THEN << >> ELSE << Head(terms) >>

\* [t.strip() for t in query_lower.split(" or ") if t.strip()]
OrTerms(query_lower) ==
    LET parts == Split(query_lower, OrDelimiter)
    IN  SelectNonBlank([i \in 1..Len(parts) |-> Strip(parts[i])])


(***************************************************************************)
(* Regular expressions (re.compile / Pattern.search).  The model covers    *)
(* the patterns built from literal characters, ".", a leading "^", a       *)
(* trailing "$" and "(": within this alphabet a pattern is rejected by     *)
(* re.compile exactly when it holds an unbalanced "(".                     *)
(***************************************************************************)

\* re.compile(pattern) raises re.error
RegexInvalid(pattern) == "(" \in Range(pattern)

\* re.compile(re.escape(text), re.IGNORECASE).search(s)
LiteralSearch(text, s) == Contains(LowerS(s), LowerS(text))

RegexAnchoredStart(pattern) == pattern # << >> /\ pattern[1] = "^"

RegexAnchoredEnd(pattern) == pattern # << >> /\ pattern[Len(pattern)] = "$"

RegexBody(pattern) ==
    Slice(pattern,
          IF RegexAnchoredStart(pattern) THEN 2 ELSE 1,
          IF RegexAnchoredEnd(pattern) THEN Len(pattern) - 1 ELSE Len(pattern))

\* one pattern character against one subject character, under re.IGNORECASE
AtomMatches(a, c) == IF a = "." THEN c # "\n" ELSE Lower(a) = Lower(c)

\* re.compile(pattern, re.IGNORECASE).search(s) for a valid pattern
PatternSearch(pattern, s) ==
    LET body == RegexBody(pattern)
        n == Len(body)
    IN  \E i \in 1..(Len(s) - n + 1) :
            /\ \A k \in 1..n : AtomMatches(body[k], s[i + k - 1])
            /\ RegexAnchoredStart(pattern) => i = 1
            /\ RegexAnchoredEnd(pattern) =>
                   \/ i + n = Len(s) + 1
                   \/ i + n = Len(s) /\ s[Len(s)] = "\n"

VARIABLE regex_cache    \* _regex_cache: (pattern, flags) -> compiled matcher

\* the key of a lookup: every caller passes re.IGNORECASE
CacheKey(pattern) == << pattern, "IGNORECASE" >>

\* mutant of Compile: an invalid pattern is kept as it is
CompileUnescapedMutant(pattern) == [escaped |-> FALSE, pattern |-> pattern]

\* what _get_cached_regex stores for a new key: re.compile(pattern, flags),
\* or on re.error re.compile(re.escape(pattern), flags)
Compile(pattern) ==
    IF RegexInvalid(pattern) THEN [escaped |-> TRUE, pattern |-> pattern]
    ELSE [escaped |-> FALSE, pattern |-> pattern]

\* _get_cached_regex(pattern, re.IGNORECASE): the matcher returned
GetCachedRegex(pattern) ==
    IF CacheKey(pattern) \in DOMAIN regex_cache THEN regex_cache[CacheKey(pattern)]
    ELSE Compile(pattern)

\* _regex_cache after _get_cached_regex(pattern, re.IGNORECASE)
CacheAfterLookup(pattern) ==
    [k \in DOMAIN regex_cache \cup {CacheKey(pattern)} |->
        IF k \in DOMAIN regex_cache THEN regex_cache[k] ELSE Compile(pattern)]

\* rx.search(s)
RxSearch(rx, s) ==
    IF rx.escaped THEN LiteralSearch(rx.pattern, s) ELSE PatternSearch(rx.pattern, s)

\* _get_cached_regex(pattern, re.IGNORECASE).search(s)
CachedRegexSearch(pattern, s) == RxSearch(GetCachedRegex(pattern), s)

RECURSIVE LinesFrom(_, _)
\* the lines a text-mode file iterator yields, each with its "\n"
LinesFrom(data, start) ==
    IF start > Len(data) THEN << >>
    ELSE LET nl == Find(data, << "\n" >>, start)
         IN  IF nl = 0
             THEN << Slice(data, start, Len(data)) >>
             ELSE << Slice(data, start, nl) >> \o LinesFrom(data, nl + 1)

Lines(data) == LinesFrom(data, 1)


(***************************************************************************)
(* qry/engines/fast_search.py: the Aho-Corasick automaton.  Nodes are      *)
(* numbered from 0 as in the code; node n's row is element n + 1 of goto,  *)
(* fail and output.  A goto row is the dict's items in insertion order,    *)
(* each a pair << ch, s >>.                                                *)
(***************************************************************************)

\* ch in self.goto[n]
GotoHas(ac, n, ch) == \E i \in 1..Len(ac.goto[n + 1]) : ac.goto[n + 1][i][1] = ch

\* self.goto[n].get(ch, 0)
GotoGet(ac, n, ch) ==
    IF GotoHas(ac, n, ch)
    THEN LET i == CHOOSE j \in 1..Len(ac.goto[n + 1]) : ac.goto[n + 1][j][1] = ch
         IN  ac.goto[n + 1][i][2]
    ELSE 0

\* AhoCorasick.__init__ before _build
AcEmpty == [goto |-> << << >> >>, fail |-> << 0 >>, output |-> << << >> >>]

RECURSIVE AcInsert(_, _, _, _)
\* _build, first loop: the walk of one pattern from its i-th character
AcInsert(ac, cur, pat, i) ==
    IF i > Len(pat)
    THEN [ac EXCEPT !.output[cur + 1] = Append(@, pat)]
    ELSE IF GotoHas(ac, cur, pat[i])
         THEN AcInsert(ac, GotoGet(ac, cur, pat[i]), pat, i + 1)
         ELSE LET new == Len(ac.goto)
                  grown == [goto |-> Append([ac.goto EXCEPT ![cur + 1] =
                                                 Append(@, << pat[i], new >>)], << >>),
                            fail |-> Append(ac.fail, 0),
                            output |-> Append(ac.output, << >>)]
              IN  AcInsert(grown, new, pat, i + 1)

RECURSIVE AcInsertAll(_, _)
AcInsertAll(ac, patterns) ==
    IF patterns = << >> THEN ac
    ELSE AcInsertAll(AcInsert(ac, 0, Head(patterns), 1), Tail(patterns))

RECURSIVE AcFollowFail(_, _, _)
\* while state and ch not in self.goto[state]: state = self.fail[state]
AcFollowFail(ac, state, ch) ==
    IF state # 0 /\ ~GotoHas(ac, state, ch)
    THEN AcFollowFail(ac, ac.fail[state + 1], ch)
    ELSE state

RECURSIVE AcLinkChildren(_, _, _, _)
\* _build, second loop body: the children of r from the i-th item on
AcLinkChildren(ac, queue, r, i) ==
    IF i > Len(ac.goto[r + 1]) THEN [ac |-> ac, queue |-> queue]
    ELSE LET ch == ac.goto[r + 1][i][1]
             s == ac.goto[r + 1][i][2]
             state == AcFollowFail(ac, ac.fail[r + 1], ch)
             target == GotoGet(ac, state, ch)
             f == IF target = s THEN 0 ELSE target
             linked == [ac EXCEPT !.fail[s + 1] = f,
                                  !.output[s + 1] = @ \o ac.output[f + 1]]
         IN  AcLinkChildren(linked, Append(queue, s), r, i + 1)

RECURSIVE AcBfs(_, _)
\* _build, second loop: while queue: r = queue.pop(0) ...
AcBfs(ac, queue) ==
    IF queue = << >> THEN ac
    ELSE LET step == AcLinkChildren(ac, Tail(queue), Head(queue), 1)
         IN  AcBfs(step.ac, step.queue)

\* AhoCorasick(patterns)
AhoCorasick(patterns) ==
    LET trie == AcInsertAll(AcEmpty, patterns)
    IN  AcBfs(trie, [i \in 1..Len(trie.goto[1]) |-> trie.goto[1][i][2]])

RECURSIVE AcSearchFrom(_, _, _, _)
\* AhoCorasick.search from the j-th character (code index i = j - 1) in state cur
AcSearchFrom(ac, text, j, cur) ==
    IF j > Len(text) THEN << >>
    ELSE LET back == AcFollowFail(ac, cur, text[j])
             next == GotoGet(ac, back, text[j])
             out == ac.output[next + 1]
         IN  [k \in 1..Len(out) |-> << (j - 1) - Len(out[k]) + 1, out[k] >>]
                 \o AcSearchFrom(ac, text, j + 1, next)

\* AhoCorasick.search(text): pairs << start offset (0-based), pattern >>
AcSearch(ac, text) == AcSearchFrom(ac, text, 1, 0)


(***************************************************************************)
(* The state.                                                              *)
(*                                                                         *)
(* fs is the (static) filesystem: fs.dirs[d] = [parent, name, size,        *)
(* mtime] with directory 1 the top directory (parent 0), and fs.files[i]   *)
(* = [dir, name, size, mtime, content, readable, stat_ok].  A directory's  *)
(* listing gives its files in index order, then its subdirectories in      *)
(* index order.  An entry is named by a reference [kind, id].              *)
(***************************************************************************)
VARIABLES
    fs,             \* the filesystem
    engine,         \* the SimpleSearchEngine: [priority_mode, max_workers,
                    \*   priority_callback (an observer is set)]
    query,          \* the SearchQuery of the invocation
    search_paths,   \* the list of roots, each an entry reference or Missing
    pc,             \* where the running generator stands
    path_idx,       \* index in search_paths of the root being searched
    yielded,        \* the results the engine generator has yielded, in order
    walk_stack,     \* os.walk: the directories still to be visited
    cur_dir,        \* the directory whose files are being processed
    files_left,     \* the entries of the current listing not yet processed
    count,          \* search_iter's count
    examined,       \* the entries handed to _process_file, in order
    all_dirs_by_priority, \* _search_by_priority: tier -> list of directories
    tiers_left,     \* _search_by_priority: the sorted tiers not yet finished
    priority_results, \* _search_by_priority: the matches of the current tier
    result_idx,     \* _search_by_priority: the next of them to yield
    callbacks,      \* the calls made to priority_callback, in order
    emitted,        \* the paths qry.search_iter has yielded to its caller
    results,        \* qry.search_iter with sort_by: the collected result list
    match_out,      \* the calls of the caller that have returned, each with
                    \*   its query and the list of its results
    pending,        \* the queries of the calls the caller has still to make
    entry,          \* the entry point the caller runs the search through
    collected,      \* search_command: the paths collected so far
    interrupted,    \* search_command: the interrupted flag
    raised,         \* a KeyboardInterrupt has left the entry point
    current_priority_idx, \* _search_incremental: index in priority_order
    results_queue,  \* _search_incremental: the items put and not yet got
    stop_search,    \* _search_incremental: the Event is set
    threads,        \* the background_search threads started, in order
    found_results,  \* _search_incremental: found_results
    since_start,    \* time.time() - start_time, in units of the get timeout
    since_last,     \* time.time() - last_result_time, in the same units
    tier_ends,      \* how the consumer has left each tier so far
    stat_cache,     \* _cached_stat: the entries of the lru_cache, least
                    \*   recently used first
    all_dirs,       \* _search_parallel: all_dirs
    futures,        \* _search_parallel: the futures submitted to the pool
    future_results, \* _search_parallel: what is left of  results = future.result()
    self_date_range, \* the engine's attribute _date_range when two searches share it
    generators      \* the two search_iter generators that share one engine

inputVars == << fs, engine, query, search_paths >>

plainVars == << walk_stack, cur_dir, files_left, count >>

prioVars == << all_dirs_by_priority, tiers_left, priority_results, result_idx,
               callbacks >>

callerVars == << emitted, results, match_out, pending >>

intrVars == << entry, collected, interrupted, raised >>

incVars == << current_priority_idx, results_queue, stop_search, threads,
             found_results, since_start, since_last, tier_ends >>

parVars == << all_dirs, futures, future_results >>

sharedVars == << self_date_range, generators >>

lateVars == << stat_cache, parVars, sharedVars >>

otherVars == << intrVars, incVars, lateVars >>

vars == << inputVars, pc, path_idx, yielded, examined, plainVars, prioVars,
           callerVars, regex_cache, otherVars >>

FileRef(i) == [kind |-> "file", id |-> i]

DirRef(d) == [kind |-> "dir", id |-> d]

\* a path that names nothing
Missing == [kind |-> "missing", id |-> 0]

Slash == << "/" >>

RECURSIVE DirPath(_)
\* the path os.walk reports for directory d: os.path.join along the tree
DirPath(d) ==
    IF fs.dirs[d].parent = 0 THEN fs.dirs[d].name
    ELSE DirPath(fs.dirs[d].parent) \o Slash \o fs.dirs[d].name

\* os.path.join(root, file)
EntryPath(ref) ==
    IF ref.kind = "dir" THEN DirPath(ref.id)
    ELSE DirPath(fs.files[ref.id].dir) \o Slash \o fs.files[ref.id].name

\* the directory that lists the entry (0 for the top directory)
EntryParent(ref) ==
    IF ref.kind = "dir" THEN fs.dirs[ref.id].parent ELSE fs.files[ref.id].dir

EntryName(ref) ==
    IF ref.kind = "dir" THEN fs.dirs[ref.id].name ELSE fs.files[ref.id].name

\* os.stat(path) succeeds
StatOk(ref) == ref.kind = "dir" \/ (ref.kind = "file" /\ fs.files[ref.id].stat_ok)

EntrySize(ref) ==
    IF ref.kind = "dir" THEN fs.dirs[ref.id].size ELSE fs.files[ref.id].size

EntryMtime(ref) ==
    IF ref.kind = "dir" THEN fs.dirs[ref.id].mtime ELSE fs.files[ref.id].mtime

\* open(path) succeeds: never for a directory
CanOpen(ref) == ref.kind = "file" /\ fs.files[ref.id].readable

EntryData(ref) == fs.files[ref.id].content

\* os.walk's dirs list for d
SubDirs(d) ==
    LET ids == {c \in 1..Len(fs.dirs) : fs.dirs[c].parent = d}
        F[n \in 0..Len(fs.dirs)] ==
            IF n = 0 THEN << >>
            ELSE IF n \in ids THEN Append(F[n - 1], n) ELSE F[n - 1]
    IN  F[Len(fs.dirs)]

\* os.walk's files list for d
FilesIn(d) ==
    LET F[n \in 0..Len(fs.files)] ==
            IF n = 0 THEN << >>
            ELSE IF fs.files[n].dir = d THEN Append(F[n - 1], n) ELSE F[n - 1]
    IN  F[Len(fs.files)]

\* os.listdir(d): every entry of the directory
ListDir(d) ==
    [i \in 1..Len(FilesIn(d)) |-> FileRef(FilesIn(d)[i])]
        \o [i \in 1..Len(SubDirs(d)) |-> DirRef(SubDirs(d)[i])]

RECURSIVE RelSegments(_, _)
\* os.path.relpath(abs_root, abs_search_path) split on os.sep, "." dropped:
\* the names from the search root (not included) down to d
RelSegments(root, d) ==
    IF d = root \/ d = 0 THEN << >>
    ELSE Append(RelSegments(root, fs.dirs[d].parent), fs.dirs[d].name)

\* d is root or lies below it
IsUnder(root, d) ==
    LET Up[n \in 0..Len(fs.dirs)] ==
            IF n = 0 THEN FALSE ELSE n = root \/ Up[fs.dirs[n].parent]
    IN  Up[d]

\* depth as search_iter computes it
DepthOf(root, d) == Len(RelSegments(root, d))

\* the last component of a path
BaseName(path) ==
    LET slashes == {i \in 1..Len(path) : path[i] = "/"}
        last == IF slashes = {} THEN 0
                ELSE CHOOSE i \in slashes : \A j \in slashes : j <= i
    IN  Slice(path, last + 1, Len(path))

\* pathlib.Path(path).suffix
Suffix(path) ==
    LET name == BaseName(path)
        dots == {i \in 1..Len(name) : name[i] = "."}
        i == IF dots = {} THEN 0 ELSE CHOOSE k \in dots : \A j \in dots : j <= k
    IN  IF 1 < i /\ i < Len(name) THEN Slice(name, i, Len(name)) ELSE << >>


(***************************************************************************)
(* qry/engines/fast_search.py: FastContentSearcher                         *)
(***************************************************************************)

\* 4 * 1024 * 1024
MmapThreshold == 4194304

\* _str_find_file
StrFindFile(ref, pattern, case_sensitive) ==
    IF ~CanOpen(ref) THEN FALSE
    ELSE IF ~case_sensitive
         THEN Contains(LowerS(EntryData(ref)), LowerS(pattern))
         ELSE Contains(EntryData(ref), pattern)

\* _aho_corasick_file
AhoCorasickFile(ref, patterns, case_sensitive) ==
    IF ~CanOpen(ref) THEN FALSE
    ELSE LET data == IF ~case_sensitive THEN LowerS(EntryData(ref)) ELSE EntryData(ref)
             needles == [i \in 1..Len(patterns) |->
                            IF ~case_sensitive THEN LowerS(patterns[i]) ELSE patterns[i]]
         IN  AcSearch(AhoCorasick(needles), data) # << >>

\* bool(mmap_regex_search(file_path, re.escape(pattern))): an empty file
\* cannot be mapped (ValueError) and gives no position
MmapRegexFile(ref, pattern) ==
    IF ~CanOpen(ref) \/ EntryData(ref) = << >> THEN FALSE
    ELSE LiteralSearch(pattern, EntryData(ref))

\* FastContentSearcher.search_file
SearchFile(ref, patterns, case_sensitive) ==
    IF patterns = << >> THEN TRUE
    ELSE IF ~StatOk(ref) THEN FALSE
    ELSE IF Len(patterns) > 1 THEN AhoCorasickFile(ref, patterns, case_sensitive)
    ELSE IF EntrySize(ref) > MmapThreshold THEN MmapRegexFile(ref, patterns[1])
    ELSE StrFindFile(ref, patterns[1], case_sensitive)

(***************************************************************************)
(* qry/engines/simple.py: the match predicate                              *)
(***************************************************************************)

\* mutant of ProcessFile: a result is built although the stat failed
ProcessFileMutant(ref) ==
    Some([file_path |-> EntryPath(ref),
          file_type |-> LowerS(Suffix(EntryPath(ref))),
          timestamp |-> EntryMtime(ref),
          size |-> EntrySize(ref),
          node |-> ref])

\* _process_file: the SearchResult of an entry, or None.  node is the entry
\* the path names on the static filesystem.
ProcessFile(ref) ==
    IF ~StatOk(ref) THEN None
    ELSE Some([file_path |-> EntryPath(ref),
               file_type |-> LowerS(Suffix(EntryPath(ref))),
               timestamp |-> EntryMtime(ref),
               size |-> EntrySize(ref),
               node |-> ref])

\* _regex_search_file
RegexSearchFile(ref, pattern) ==
    IF ~CanOpen(ref) THEN FALSE
    ELSE \E i \in 1..Len(Lines(EntryData(ref))) :
             CachedRegexSearch(pattern, Lines(EntryData(ref))[i])

\* _search_in_content
SearchInContent(result, q, query_lower) ==
    IF q.use_regex THEN RegexSearchFile(result.node, q.query_text)
    ELSE LET patterns == IF Contains(query_lower, OrDelimiter)
                         THEN OrTerms(query_lower)
                         ELSE << query_lower >>
         IN  SearchFile(result.node, patterns, FALSE)

\* _matches_query, step 4: the filename test
FilenameMatch(result, q) ==
    LET query_lower == LowerS(q.query_text)
    IN  IF q.use_regex THEN CachedRegexSearch(q.query_text, result.file_path)
        ELSE IF Contains(query_lower, OrDelimiter)
             THEN \E i \in 1..Len(OrTerms(query_lower)) :
                      Contains(LowerS(result.file_path), OrTerms(query_lower)[i])
             ELSE Contains(LowerS(result.file_path), query_lower)

\* mutant of TextMatch: mode "both" looks at the content only
TextMatchMutant(result, q) ==
    LET query_lower == LowerS(q.query_text)
    IN  IF q.search_mode \in {"content", "both"}
        THEN SearchInContent(result, q, query_lower)
        ELSE FilenameMatch(result, q)

\* _matches_query, steps 4 and 5: the test selected by search_mode
TextMatch(result, q) ==
    LET query_lower == LowerS(q.query_text)
    IN  IF q.search_mode = "content" THEN SearchInContent(result, q, query_lower)
        ELSE IF q.search_mode = "both"
             THEN FilenameMatch(result, q) \/ SearchInContent(result, q, query_lower)
             ELSE FilenameMatch(result, q)

\* mutant of SizeMatch: max_size is ignored
SizeMatchMutant(result, q) == ~(q.min_size # None /\ result.size < q.min_size[1])

\* _matches_query, step 2
SizeMatch(result, q) ==
    /\ ~(q.min_size # None /\ result.size < q.min_size[1])
    /\ ~(q.max_size # None /\ result.size > q.max_size[1])

\* _matches_query, steps 1 to 3
AttributeMatch(result, q) ==
    /\ ~(q.file_types # {} /\ LStripDots(result.file_type) \notin q.file_types)
    /\ SizeMatch(result, q)
    /\ ~(q.date_range # None /\ (\/ result.timestamp < q.date_range[1][1]
                                 \/ result.timestamp > q.date_range[1][2]))

\* _matches_query
MatchesQuery(result, q) ==
    /\ AttributeMatch(result, q)
    /\ (q.query_text # << >> => TextMatch(result, q))


(***************************************************************************)
(* qry/engines/simple.py: directory priorities                             *)
(***************************************************************************)

\* class Priority
SOURCE == 100

PROJECT == 90

CONFIG == 80

MAIN == 70

MODULES == 60

UTILS == 50

BUILD == 40

CACHE == 30

TEMP == 20

GENERATED == 10

EXCLUDED == 0

Tiers == {SOURCE, PROJECT, CONFIG, MAIN, MODULES, UTILS, BUILD, CACHE, TEMP,
          GENERATED, EXCLUDED}

\* the name of a Priority member, as priority.name gives it
PriorityName(t) ==
    CASE t = SOURCE -> "SOURCE" [] t = PROJECT -> "PROJECT"
      [] t = CONFIG -> "CONFIG" [] t = MAIN -> "MAIN"
      [] t = MODULES -> "MODULES" [] t = UTILS -> "UTILS"
      [] t = BUILD -> "BUILD" [] t = CACHE -> "CACHE"
      [] t = TEMP -> "TEMP" [] t = GENERATED -> "GENERATED"
      [] t = EXCLUDED -> "EXCLUDED"

\* the atoms of the rules' regular expressions: a literal character, the
\* unescaped dot (any character but a newline), and either made optional by ?
Lit(c) == [kind |-> "lit", ch |-> c, opt |-> FALSE]

AnyChar == [kind |-> "any", ch |-> ".", opt |-> FALSE]

Opt(a) == [a EXCEPT !.opt = TRUE]

\* PRIORITY_PATTERNS: each rule is (^|/)segment($|/), given here by the atoms
\* of its segment, in the order of the list
PRIORITY_PATTERNS == <<
    [segment |-> << Lit("s"), Lit("r"), Lit("c") >>,
     priority |-> SOURCE],
    [segment |-> << Lit("s"), Lit("o"), Lit("u"), Lit("r"), Lit("c"), Lit("e") >>,
     priority |-> SOURCE],
    [segment |-> << Lit("l"), Lit("i"), Lit("b") >>,
     priority |-> SOURCE],
    [segment |-> << Lit("c"), Lit("o"), Lit("d"), Lit("e") >>,
     priority |-> SOURCE],
    [segment |-> << Lit("t"), Lit("e"), Lit("s"), Lit("t"), Opt(Lit("s")) >>,
     priority |-> PROJECT],
    [segment |-> << Lit("t"), Lit("e"), Lit("s"), Lit("t") >>,
     priority |-> PROJECT],
    [segment |-> << Lit("d"), Lit("o"), Lit("c"), Opt(Lit("s")) >>,
     priority |-> PROJECT],
    [segment |-> << Lit("s"), Lit("c"), Lit("r"), Lit("i"), Lit("p"), Lit("t"), Lit("s") >>,
     priority |-> PROJECT],
    [segment |-> << Lit("e"), Lit("x"), Lit("a"), Lit("m"), Lit("p"), Lit("l"), Lit("e"), Opt(Lit("s")) >>,
     priority |-> PROJECT],
    [segment |-> << Lit("."), Lit("c"), Lit("o"), Lit("n"), Lit("f"), Lit("i"), Lit("g") >>,
     priority |-> CONFIG],
    [segment |-> << Lit("c"), Lit("o"), Lit("n"), Lit("f"), Lit("i"), Lit("g") >>,
     priority |-> CONFIG],
    [segment |-> << Lit("s"), Lit("e"), Lit("t"), Lit("t"), Lit("i"), Lit("n"), Lit("g"), Lit("s") >>,
     priority |-> CONFIG],
    [segment |-> << Lit("m"), Lit("a"), Lit("i"), Lit("n") >>,
     priority |-> MAIN],
    [segment |-> << Lit("a"), Lit("p"), Lit("p") >>,
     priority |-> MAIN],
    [segment |-> << Lit("c"), Lit("o"), Lit("r"), Lit("e") >>,
     priority |-> MAIN],
    [segment |-> << Lit("s"), Lit("e"), Lit("r"), Lit("v"), Lit("e"), Lit("r") >>,
     priority |-> MAIN],
    [segment |-> << Lit("c"), Lit("l"), Lit("i"), Lit("e"), Lit("n"), Lit("t") >>,
     priority |-> MAIN],
    [segment |-> << Lit("m"), Lit("o"), Lit("d"), Lit("u"), Lit("l"), Lit("e"), Opt(Lit("s")) >>,
     priority |-> MODULES],
    [segment |-> << Lit("c"), Lit("o"), Lit("m"), Lit("p"), Lit("o"), Lit("n"), Lit("e"), Lit("n"), Lit("t"), Opt(Lit("s")) >>,
     priority |-> MODULES],
    [segment |-> << Lit("p"), Lit("a"), Lit("c"), Lit("k"), Lit("a"), Lit("g"), Lit("e"), Opt(Lit("s")) >>,
     priority |-> MODULES],
    [segment |-> << Lit("p"), Lit("l"), Lit("u"), Lit("g"), Lit("i"), Lit("n"), Opt(Lit("s")) >>,
     priority |-> MODULES],
    [segment |-> << Lit("e"), Lit("x"), Lit("t"), Lit("e"), Lit("n"), Lit("s"), Lit("i"), Lit("o"), Lit("n"), Opt(Lit("s")) >>,
     priority |-> MODULES],
    [segment |-> << Lit("u"), Lit("t"), Lit("i"), Lit("l"), Lit("s") >>,
     priority |-> UTILS],
    [segment |-> << Lit("h"), Lit("e"), Lit("l"), Lit("p"), Lit("e"), Lit("r"), Lit("s") >>,
     priority |-> UTILS],
    [segment |-> << Lit("t"), Lit("o"), Lit("o"), Lit("l"), Lit("s") >>,
     priority |-> UTILS],
    [segment |-> << Lit("l"), Lit("i"), Lit("b") >>,
     priority |-> UTILS],
    [segment |-> << Lit("b"), Lit("u"), Lit("i"), Lit("l"), Lit("d") >>,
     priority |-> BUILD],
    [segment |-> << Lit("d"), Lit("i"), Lit("s"), Lit("t") >>,
     priority |-> BUILD],
    [segment |-> << Lit("o"), Lit("u"), Lit("t") >>,
     priority |-> BUILD],
    [segment |-> << Lit("t"), Lit("a"), Lit("r"), Lit("g"), Lit("e"), Lit("t") >>,
     priority |-> BUILD],
    [segment |-> << Lit("r"), Lit("e"), Lit("l"), Lit("e"), Lit("a"), Lit("s"), Lit("e") >>,
     priority |-> BUILD],
    [segment |-> << Lit("d"), Lit("e"), Lit("b"), Lit("u"), Lit("g") >>,
     priority |-> BUILD],
    [segment |-> << Lit("c"), Lit("a"), Lit("c"), Lit("h"), Lit("e") >>,
     priority |-> CACHE],
    [segment |-> << Lit("_"), Lit("_"), Lit("p"), Lit("y"), Lit("c"), Lit("a"), Lit("c"), Lit("h"), Lit("e"), Lit("_"), Lit("_") >>,
     priority |-> CACHE],
    [segment |-> << Lit("n"), Lit("o"), Lit("d"), Lit("e"), Lit("_"), Lit("m"), Lit("o"), Lit("d"), Lit("u"), Lit("l"), Lit("e"), Lit("s") >>,
     priority |-> CACHE],
    [segment |-> << AnyChar, Lit("p"), Lit("y"), Lit("t"), Lit("e"), Lit("s"), Lit("t"), Lit("_"), Lit("c"), Lit("a"), Lit("c"), Lit("h"), Lit("e") >>,
     priority |-> CACHE],
    [segment |-> << AnyChar, Lit("t"), Lit("o"), Lit("x") >>,
     priority |-> CACHE],
    [segment |-> << Lit("t"), Lit("e"), Lit("m"), Lit("p") >>,
     priority |-> TEMP],
    [segment |-> << Lit("t"), Lit("m"), Lit("p") >>,
     priority |-> TEMP],
    [segment |-> << AnyChar, Lit("t"), Lit("m"), Lit("p") >>,
     priority |-> TEMP],
    [segment |-> << Lit("g"), Lit("e"), Lit("n"), Lit("e"), Lit("r"), Lit("a"), Lit("t"), Lit("e"), Lit("d") >>,
     priority |-> GENERATED],
    [segment |-> << Lit("c"), Lit("o"), Lit("m"), Lit("p"), Lit("i"), Lit("l"), Lit("e"), Lit("d") >>,
     priority |-> GENERATED],
    [segment |-> << Lit("b"), Lit("i"), Lit("n") >>,
     priority |-> GENERATED],
    [segment |-> << Lit("o"), Lit("b"), Lit("j") >>,
     priority |-> GENERATED],
    [segment |-> << AnyChar, Lit("g"), Lit("i"), Lit("t") >>,
     priority |-> EXCLUDED],
    [segment |-> << AnyChar, Lit("s"), Lit("v"), Lit("n") >>,
     priority |-> EXCLUDED],
    [segment |-> << AnyChar, Lit("h"), Lit("g") >>,
     priority |-> EXCLUDED],
    [segment |-> << AnyChar, Lit("v"), Lit("e"), Lit("n"), Lit("v") >>,
     priority |-> EXCLUDED],
    [segment |-> << Lit("v"), Lit("e"), Lit("n"), Lit("v") >>,
     priority |-> EXCLUDED],
    [segment |-> << Lit("e"), Lit("n"), Lit("v") >>,
     priority |-> EXCLUDED],
    [segment |-> << AnyChar, Lit("i"), Lit("d"), Lit("e"), Lit("a") >>,
     priority |-> EXCLUDED],
    [segment |-> << AnyChar, Lit("v"), Lit("s"), Lit("c"), Lit("o"), Lit("d"), Lit("e") >>,
     priority |-> EXCLUDED]
>>

\* one atom of a rule against one character
RuleAtomMatches(a, c) == IF a.kind = "any" THEN c # "\n" ELSE c = a.ch

RECURSIVE SegmentMatches(_, _)
\* the atoms match the whole of the text
SegmentMatches(atoms, text) ==
    IF atoms = << >> THEN text = << >>
    ELSE \/ /\ text # << >>
            /\ RuleAtomMatches(Head(atoms), Head(text))
            /\ SegmentMatches(Tail(atoms), Tail(text))
         \/ /\ Head(atoms).opt
            /\ SegmentMatches(Tail(atoms), text)

\* pattern.search(rel_path) for the rule (^|/)segment($|/): the segment stands
\* between a slash or the start and a slash or the end, so it is one whole
\* component of the path.  (A dot atom could take a slash only after another
\* slash or at the start, and a relative path has "//" nowhere and no
\* leading slash.)
RuleSearch(rule, segments) ==
    \E i \in 1..Len(segments) : SegmentMatches(rule.segment, segments[i])

\* the rel_path of a directory under a root: os.path.relpath gives "." for
\* the root itself
RelPathSegments(root, d) ==
    IF d = root THEN << << "." >> >> ELSE RelSegments(root, d)

RECURSIVE FirstRule(_, _)
\* for pattern, priority in PRIORITY_PATTERNS: if pattern.search(rel_path):
\* return priority  -- from rule i on; 0 when the loop ends without a match
FirstRule(i, segments) ==
    IF i > Len(PRIORITY_PATTERNS) THEN 0
    ELSE IF RuleSearch(PRIORITY_PATTERNS[i], segments) THEN i
    ELSE FirstRule(i + 1, segments)

\* _get_directory_priority: the first rule that matches, else Priority.MAIN
GetDirectoryPriority(segments) ==
    LET hit == FirstRule(1, segments)
    IN  IF hit = 0 THEN MAIN ELSE PRIORITY_PATTERNS[hit].priority


(***************************************************************************)
(* qry/engines/simple.py: directory pruning                                *)
(***************************************************************************)

\* a datetime as a number that orders as datetimes do: year, month, day,
\* hour
DateTime(y, m, d, h) == ((y * 100 + m) * 100 + d) * 24 + h

DigitChars == << "0", "1", "2", "3", "4", "5", "6", "7", "8", "9" >>

IsDigit(c) == \E v \in 1..10 : DigitChars[v] = c

\* int(c) of a digit
DigitValue(c) == (CHOOSE v \in 1..10 : DigitChars[v] = c) - 1

\* \d{n} matches s at position i
DigitsAt(s, i, n) ==
    /\ i >= 1
    /\ i + n - 1 <= Len(s)
    /\ \A k \in i..(i + n - 1) : IsDigit(s[k])

RECURSIVE NumberAt(_, _, _)
\* int(s[i .. i + n - 1])
NumberAt(s, i, n) ==
    IF n = 0 THEN 0
    ELSE NumberAt(s, i, n - 1) * 10 + DigitValue(s[i + n - 1])

\* the character of s at position i, "" past the end
CharAt(s, i) == IF i >= 1 /\ i <= Len(s) THEN s[i] ELSE ""

\* calendar.month_name[1:], lower case
MonthNames ==
    << << "j", "a", "n", "u", "a", "r", "y" >>,
       << "f", "e", "b", "r", "u", "a", "r", "y" >>,
       << "m", "a", "r", "c", "h" >>,
       << "a", "p", "r", "i", "l" >>,
       << "m", "a", "y" >>,
       << "j", "u", "n", "e" >>,
       << "j", "u", "l", "y" >>,
       << "a", "u", "g", "u", "s", "t" >>,
       << "s", "e", "p", "t", "e", "m", "b", "e", "r" >>,
       << "o", "c", "t", "o", "b", "e", "r" >>,
       << "n", "o", "v", "e", "m", "b", "e", "r" >>,
       << "d", "e", "c", "e", "m", "b", "e", "r" >> >>

\* calendar.month_abbr[1:], lower case
MonthAbbrs ==
    << << "j", "a", "n" >>,
       << "f", "e", "b" >>,
       << "m", "a", "r" >>,
       << "a", "p", "r" >>,
       << "m", "a", "y" >>,
       << "j", "u", "n" >>,
       << "j", "u", "l" >>,
       << "a", "u", "g" >>,
       << "s", "e", "p" >>,
       << "o", "c", "t" >>,
       << "n", "o", "v" >>,
       << "d", "e", "c" >> >>

\* the months a table names at position i of s, ignoring case
MonthsAt(table, s, i) ==
    {m \in 1..12 : IsAt(LowerS(s), table[m], i)}

\* the one alternative << length, value >> when the test holds
Alternative(test, length, value) ==
    IF test THEN << << length, value >> >> ELSE << >>

\* the alternatives of the month names of a table at position i of s: no
\* name of a table begins another
MonthAlternatives(table, s, i) ==
    [m \in 1..Cardinality(MonthsAt(table, s, i)) |->
        << Len(table[CHOOSE k \in MonthsAt(table, s, i) : TRUE]),
           CHOOSE k \in MonthsAt(table, s, i) : TRUE >>]

\* the alternatives of the regex of one strptime directive (or of a literal
\* character of the format) that match s at position i, in the order the
\* regex tries them; each << length, value >>
\*   %Y  (\d\d\d\d)
\*   %m  (1[0-2]|0[1-9]|[1-9])
\*   %d  (3[0-1]|[1-2]\d|0[1-9]|[1-9]| [1-9])
\*   %B, %b  the month names, the longest first
DirectiveAlternatives(directive, s, i) ==
    CASE directive = "%Y" ->
             Alternative(DigitsAt(s, i, 4), 4, NumberAt(s, i, 4))
      [] directive = "%m" ->
             Alternative(CharAt(s, i) = "1" /\ CharAt(s, i + 1) \in {"0", "1", "2"},
                         2, NumberAt(s, i, 2))
             \o Alternative(CharAt(s, i) = "0" /\ DigitsAt(s, i + 1, 1)
                                /\ CharAt(s, i + 1) # "0",
                            2, NumberAt(s, i, 2))
             \o Alternative(DigitsAt(s, i, 1) /\ CharAt(s, i) # "0", 1, NumberAt(s, i, 1))
      [] directive = "%d" ->
             Alternative(CharAt(s, i) = "3" /\ CharAt(s, i + 1) \in {"0", "1"},
                         2, NumberAt(s, i, 2))
             \o Alternative(CharAt(s, i) \in {"1", "2"} /\ DigitsAt(s, i + 1, 1),
                            2, NumberAt(s, i, 2))
             \o Alternative(CharAt(s, i) = "0" /\ DigitsAt(s, i + 1, 1)
                                /\ CharAt(s, i + 1) # "0",
                            2, NumberAt(s, i, 2))
             \o Alternative(DigitsAt(s, i, 1) /\ CharAt(s, i) # "0", 1, NumberAt(s, i, 1))
             \o Alternative(CharAt(s, i) = " " /\ DigitsAt(s, i + 1, 1)
                                /\ CharAt(s, i + 1) # "0",
                            2, NumberAt(s, i + 1, 1))
      [] directive = "%B" -> MonthAlternatives(MonthNames, s, i)
      [] directive = "%b" -> MonthAlternatives(MonthAbbrs, s, i)
      [] OTHER -> Alternative(CharAt(s, i) = directive, 1, 0)

\* the field of the result a directive sets
DirectiveField(directive) ==
    CASE directive = "%Y" -> "Y"
      [] directive \in {"%m", "%B", "%b"} -> "m"
      [] directive = "%d" -> "d"
      [] OTHER -> "literal"

RECURSIVE FormatMatch(_, _, _)
RECURSIVE FirstMatch(_, _, _, _)
RECURSIVE MatchOrNext(_, _, _, _, _)
\* format_regex.match(data_string) from position i on: the first match in
\* the order of the regex, as its end and its fields, or None.  A field the
\* format does not set keeps strptime's default
FormatMatch(fmt, s, i) ==
    IF fmt = << >>
    THEN Some([end |-> i, Y |-> 1900, m |-> 1, d |-> 1, literal |-> 0])
    ELSE FirstMatch(DirectiveAlternatives(Head(fmt), s, i), fmt, s, i)

\* the alternatives of the first directive of fmt are tried in order
FirstMatch(alts, fmt, s, i) ==
    IF alts = << >> THEN None
    ELSE MatchOrNext(FormatMatch(Tail(fmt), s, i + Head(alts)[1]), alts, fmt, s, i)

\* the rest of the format has matched after the first alternative, or the
\* regex backtracks to the next one
MatchOrNext(found, alts, fmt, s, i) ==
    IF found = None THEN FirstMatch(Tail(alts), fmt, s, i)
    ELSE Some([found[1] EXCEPT ![DirectiveField(Head(fmt))] = Head(alts)[2]])

IsLeap(y) == y % 4 = 0 /\ (y % 100 # 0 \/ y % 400 = 0)

DaysInMonth(y, m) ==
    CASE m = 2 -> IF IsLeap(y) THEN 29 ELSE 28
      [] m \in {4, 6, 9, 11} -> 30
      [] OTHER -> 31

\* datetime(y, m, d) does not raise ValueError
ValidDate(y, m, d) ==
    /\ y >= 1
    /\ m \in 1..12
    /\ d >= 1
    /\ d <= DaysInMonth(y, m)

\* datetime(y, m, d), None standing for ValueError
DateOrError(y, m, d) ==
    IF ValidDate(y, m, d) THEN Some(DateTime(y, m, d, 0)) ELSE None

\* what strptime makes of the match of the format: None stands for
\* ValueError (no match, unconverted data remains, or a day the month does
\* not have)
MatchedDate(found, s) ==
    IF found = None THEN None
    ELSE IF found[1].end # Len(s) + 1 THEN None
    ELSE DateOrError(found[1].Y, found[1].m, found[1].d)

\* datetime.strptime(s, fmt)
Strptime(s, fmt) == MatchedDate(FormatMatch(fmt, s, 1), s)

\* date_formats
date_formats ==
    << << "%Y", "-", "%m", "-", "%d" >>,
       << "%Y", "%m", "%d" >>,
       << "%d", "-", "%m", "-", "%Y" >>,
       << "%m", "-", "%d", "-", "%Y" >>,
       << "%Y", "_", "%m", "_", "%d" >>,
       << "%Y", "%m" >>,
       << "%Y" >>,
       << "%B", "_", "%Y" >>,
       << "%b", "_", "%Y" >> >>

\* the formats that parse s
ParsingFormats(s) == {f \in 1..Len(date_formats) : Strptime(s, date_formats[f]) # None}

\* the position after an optional separator [-_] at position i
AfterSeparator(s, i) == IF CharAt(s, i) \in {"-", "_"} THEN i + 1 ELSE i

\* the position after an optional group (\d{2}) at position i
AfterGroup(s, i) == IF DigitsAt(s, i, 2) THEN i + 2 ELSE i

\* the optional group (\d{2}) at position i
Group(s, i) == IF DigitsAt(s, i, 2) THEN Some(NumberAt(s, i, 2)) ELSE None

\* the groups of the match of (\d{4})[-_]?(\d{2})?[-_]?(\d{2})? that begins
\* at position p
PatternGroups(s, p) ==
    [year |-> NumberAt(s, p, 4),
     month |-> Group(s, AfterSeparator(s, p + 4)),
     day |-> Group(s, AfterSeparator(s, AfterGroup(s, AfterSeparator(s, p + 4))))]

\* date_pattern.search(cleaned): the groups of the leftmost match, a group
\* that did not take part being None
DatePatternSearch(s) ==
    IF \A p \in 1..Len(s) : ~DigitsAt(s, p, 4) THEN None
    ELSE Some(PatternGroups(s, CHOOSE p \in 1..Len(s) :
                                   /\ DigitsAt(s, p, 4)
                                   /\ \A b \in 1..(p - 1) : ~DigitsAt(s, b, 4)))

\* int(match.group(n)) if match.group(n) else 1
GroupOrOne(group) == IF group # None THEN group[1] ELSE 1

\* the date of the match of the date pattern
PatternDate(match) ==
    IF match = None THEN None
    ELSE DateOrError(match[1].year, GroupOrOne(match[1].month), GroupOrOne(match[1].day))

RECURSIVE TryFormats(_, _)
RECURSIVE ParsedOrNext(_, _, _)
\* for fmt in date_formats: the first format that parses, or else the date
\* pattern
TryFormats(formats, cleaned) ==
    IF formats = << >> THEN PatternDate(DatePatternSearch(cleaned))
    ELSE ParsedOrNext(Strptime(cleaned, Head(formats)), formats, cleaned)

ParsedOrNext(parsed, formats, cleaned) ==
    IF parsed # None THEN parsed ELSE TryFormats(Tail(formats), cleaned)

\* _parse_dir_date
ParseDirDate(name) == TryFormats(date_formats, Strip(name))

RECURSIVE SelectDirs(_, _)
\* [d for d in dirs if Keep(d)] over a list of directory ids
SelectDirs(dirs, keep) ==
    IF dirs = << >> THEN << >>
    ELSE IF Head(dirs) \in keep
         THEN << Head(dirs) >> \o SelectDirs(Tail(dirs), keep)
         ELSE SelectDirs(Tail(dirs), keep)

\* mutant of PruneExcluded: the exclusion list is ignored
PruneExcludedMutant(dirs, exclude) == dirs

\* dirs[:] = [d for d in dirs if d not in exclude]
PruneExcluded(dirs, exclude) ==
    SelectDirs(dirs, {d \in Range(dirs) : fs.dirs[d].name \notin exclude})

\* _filter_dirs_by_date
FilterDirsByDate(dirs, date_range) ==
    IF date_range = None THEN dirs
    ELSE SelectDirs(dirs,
             {d \in Range(dirs) :
                 LET parsed == ParseDirDate(fs.dirs[d].name)
                 IN  ~(parsed # None /\ (\/ parsed[1] < date_range[1][1]
                                         \/ parsed[1] > date_range[1][2]))})

\* the child directories os.walk descends into after the in-place pruning
\* by exclusion and date
PrunedDirs(d, q) ==
    FilterDirsByDate(PruneExcluded(SubDirs(d), q.exclude_dirs), q.date_range)

\* search_iter's depth test: the children kept for descent
DescendDirs(root, d, q) ==
    IF q.max_depth # None /\ DepthOf(root, d) >= q.max_depth[1]
    THEN << >>
    ELSE PrunedDirs(d, q)

\* mutant of SkipFiles: the limit is taken as exclusive
SkipFilesMutant(root, d, q) == q.max_depth # None /\ DepthOf(root, d) >= q.max_depth[1]

\* search_iter's depth test: "continue" skips the files of the directory
SkipFiles(root, d, q) == q.max_depth # None /\ DepthOf(root, d) > q.max_depth[1]

(***************************************************************************)
(* qry/engines/simple.py: search_iter, the Plain strategy                  *)
(*                                                                         *)
(* pc = "start"  search_iter has been called and has not run yet           *)
(*      "paths"  at the head of  for path in search_paths                  *)
(*      "walk"   at the head of  for root, dirs, files in os.walk(path)    *)
(*      "files"  at the head of  for file in files                         *)
(*      "done"   the generator has returned                                *)
(***************************************************************************)

\* the match of the entry reaches step 4 with use_regex, where
\* _get_cached_regex is called (in every search mode)
LooksUpRegex(ref, q) ==
    /\ q.use_regex
    /\ q.query_text # << >>
    /\ ProcessFile(ref) # None
    /\ AttributeMatch(ProcessFile(ref)[1], q)

\* _regex_cache after the entries of refs have gone through _process_file
\* and _matches_query
CacheAfterMatch(refs, q) ==
    IF \E ref \in refs : LooksUpRegex(ref, q)
    THEN CacheAfterLookup(q.query_text)
    ELSE regex_cache

\* if result and self._matches_query(result, query)
Accepts(ref, q) ==
    ProcessFile(ref) # None /\ MatchesQuery(ProcessFile(ref)[1], q)

\* the record kept of a yielded result: the SearchResult, and the root
\* (index in search_paths) under which it was found
Yielded(ref, idx) == [result |-> ProcessFile(ref)[1], root |-> idx]

\* count >= query.max_results
CapReached(n, q) == n >= q.max_results

WalkRoot == search_paths[path_idx - 1].id

\* search_iter, lines 211-226: the choice of the strategy
SearchIterStart ==
    /\ pc = "start"
    /\ pc' = IF engine.priority_mode THEN "prio_collect"
             ELSE IF query.date_range # None /\ engine.max_workers > 1
                  THEN "parallel"
                  ELSE "paths"
    /\ UNCHANGED << otherVars, inputVars, path_idx, yielded, examined, plainVars, prioVars,
                    callerVars >>
    /\ UNCHANGED regex_cache

\* one iteration of  for path in search_paths  up to the os.walk call
PlainNextPath ==
    /\ pc = "paths"
    /\ IF path_idx > Len(search_paths)
       THEN /\ pc' = "done"
            /\ UNCHANGED << path_idx, walk_stack, count, yielded, examined >>
       ELSE LET path == search_paths[path_idx]
            IN  /\ path_idx' = path_idx + 1
                /\ IF path.kind = "missing"
                   THEN /\ pc' = "paths"
                        /\ UNCHANGED << walk_stack, count, yielded, examined >>
                   ELSE IF path.kind = "file"
                   THEN /\ examined' = Append(examined, path)
                        /\ walk_stack' = walk_stack
                        /\ IF Accepts(path, query)
                           THEN /\ yielded' = Append(yielded, Yielded(path, path_idx))
                                /\ count' = count + 1
                                /\ pc' = IF CapReached(count + 1, query)
                                         THEN "done" ELSE "paths"
                           ELSE /\ pc' = "paths"
                                /\ UNCHANGED << count, yielded >>
                   ELSE /\ walk_stack' = << path.id >>
                        /\ pc' = "walk"
                        /\ UNCHANGED << count, yielded, examined >>
    /\ UNCHANGED << otherVars, inputVars, cur_dir, files_left, prioVars, callerVars >>
    /\ regex_cache' = IF path_idx <= Len(search_paths)
                        /\ search_paths[path_idx].kind = "file"
                     THEN CacheAfterMatch({search_paths[path_idx]}, query)
                     ELSE regex_cache

\* one step of os.walk and the pruning of its dirs list
PlainWalkDir ==
    /\ pc = "walk"
    /\ IF walk_stack = << >>
       THEN /\ pc' = "paths"
            /\ UNCHANGED << walk_stack, cur_dir, files_left >>
       ELSE LET d == Head(walk_stack)
            IN  /\ walk_stack' = DescendDirs(WalkRoot, d, query) \o Tail(walk_stack)
                /\ cur_dir' = d
                /\ IF SkipFiles(WalkRoot, d, query)
                   THEN /\ pc' = "walk"
                        /\ files_left' = << >>
                   ELSE /\ pc' = "files"
                        /\ files_left' = [i \in 1..Len(FilesIn(d)) |->
                                             FileRef(FilesIn(d)[i])]
    /\ UNCHANGED << otherVars, inputVars, path_idx, count, yielded, examined, prioVars,
                    callerVars >>
    /\ UNCHANGED regex_cache

\* one iteration of  for file in files
PlainNextFile ==
    /\ pc = "files"
    /\ IF files_left = << >>
       THEN /\ pc' = "walk"
            /\ UNCHANGED << files_left, count, yielded, examined >>
       ELSE LET ref == Head(files_left)
            IN  /\ files_left' = Tail(files_left)
                /\ examined' = Append(examined, ref)
                /\ IF Accepts(ref, query)
                   THEN /\ yielded' = Append(yielded, Yielded(ref, path_idx - 1))
                        /\ count' = count + 1
                        /\ pc' = IF CapReached(count + 1, query)
                                 THEN "done" ELSE "files"
                   ELSE /\ pc' = "files"
                        /\ UNCHANGED << count, yielded >>
    /\ UNCHANGED << otherVars, inputVars, path_idx, walk_stack, cur_dir, prioVars, callerVars >>
    /\ regex_cache' = IF files_left # << >>
                     THEN CacheAfterMatch({Head(files_left)}, query)
                     ELSE regex_cache


\* search_iter with the Plain strategy, step by step
NextPlain == SearchIterStart \/ PlainNextPath \/ PlainWalkDir \/ PlainNextFile


(***************************************************************************)
(* qry/engines/simple.py: _search_by_priority, the Priority strategy       *)
(*                                                                         *)
(* pc = "prio_collect"  at the head of  for path in search_paths           *)
(*      "prio_tiers"    at the head of  for idx, priority in enumerate(..) *)
(*      "prio_yield"    at the head of  for result in priority_results     *)
(***************************************************************************)

RECURSIVE WalkAll(_, _)
\* the directories os.walk(path) visits, in order, when the only pruning is
\* the one by exclusion and date
WalkAll(stack, q) ==
    IF stack = << >> THEN << >>
    ELSE << Head(stack) >> \o WalkAll(PrunedDirs(Head(stack), q) \o Tail(stack), q)

\* if query.max_depth is not None and depth > query.max_depth: continue
TooDeep(depth, q) == q.max_depth # None /\ depth > q.max_depth[1]

RECURSIVE CollectDirs(_, _, _, _)
\* the body of the os.walk loop over the visited directories: each within
\* the depth limit is appended to the list of its priority.  An item is the
\* pair (root, depth) of the code with the index of the search path it was
\* found under
CollectDirs(by_priority, visited, idx, q) ==
    IF visited = << >> THEN by_priority
    ELSE LET d == Head(visited)
             root == search_paths[idx].id
             depth == DepthOf(root, d)
             priority == GetDirectoryPriority(RelPathSegments(root, d))
         IN  IF TooDeep(depth, q)
             THEN CollectDirs(by_priority, Tail(visited), idx, q)
             ELSE CollectDirs(
                      [by_priority EXCEPT ![priority] =
                          Append(@, [dir |-> d, depth |-> depth, root |-> idx])],
                      Tail(visited), idx, q)

\* mutant of PriorityKeys: every tier is a key
PriorityKeysMutant(by_priority) == Tiers

\* all_dirs_by_priority.keys()
PriorityKeys(by_priority) == {t \in Tiers : by_priority[t] # << >>}

RECURSIVE SortedAscending(_)
\* mutant of SortedPriorities: reverse=True is dropped
SortedAscending(keys) ==
    IF keys = {} THEN << >>
    ELSE LET m == CHOOSE t \in keys : \A u \in keys : t <= u
         IN  << m >> \o SortedAscending(keys \ {m})

RECURSIVE SortedPriorities(_)
\* sorted(all_dirs_by_priority.keys(), reverse=True)
SortedPriorities(keys) ==
    IF keys = {} THEN << >>
    ELSE LET m == CHOOSE t \in keys : \A u \in keys : t >= u
         IN  << m >> \o SortedPriorities(keys \ {m})

RECURSIVE TierEntries(_, _)
\* the entries the loops over dirs and os.listdir(dir_path) hand to
\* _process_file, in order, each with the search path of its directory
TierEntries(dirs, q) ==
    IF dirs = << >> THEN << >>
    ELSE LET item == Head(dirs)
             listed == ListDir(item.dir)
         IN  (IF TooDeep(item.depth, q) THEN << >>
              ELSE [k \in 1..Len(listed) |-> [ref |-> listed[k], root |-> item.root]])
             \o TierEntries(Tail(dirs), q)

RECURSIVE TierResults(_, _)
\* priority_results after the loops: the entries that are accepted
TierResults(entries, q) ==
    IF entries = << >> THEN << >>
    ELSE (IF Accepts(Head(entries).ref, q)
          THEN << Yielded(Head(entries).ref, Head(entries).root) >>
          ELSE << >>)
         \o TierResults(Tail(entries), q)

\* one iteration of  for path in search_paths  (lines 486-520), and at its
\* end the sorting of the priorities (lines 523-524)
PrioCollectPath ==
    /\ pc = "prio_collect"
    /\ IF path_idx > Len(search_paths)
       THEN /\ tiers_left' = SortedPriorities(PriorityKeys(all_dirs_by_priority))
            /\ pc' = "prio_tiers"
            /\ UNCHANGED << path_idx, yielded, examined, all_dirs_by_priority >>
       ELSE LET path == search_paths[path_idx]
            IN  /\ path_idx' = path_idx + 1
                /\ pc' = pc
                /\ UNCHANGED tiers_left
                /\ CASE path.kind = "missing" ->
                            UNCHANGED << yielded, examined, all_dirs_by_priority >>
                     [] path.kind = "file" ->
                            /\ examined' = Append(examined, path)
                            /\ yielded' = IF Accepts(path, query)
                                          THEN Append(yielded, Yielded(path, path_idx))
                                          ELSE yielded
                            /\ UNCHANGED all_dirs_by_priority
                     [] path.kind = "dir" ->
                            /\ all_dirs_by_priority' =
                                   CollectDirs(all_dirs_by_priority,
                                               WalkAll(<< path.id >>, query),
                                               path_idx, query)
                            /\ UNCHANGED << yielded, examined >>
    /\ UNCHANGED << otherVars, inputVars, plainVars, priority_results, result_idx, callbacks,
                    callerVars >>
    /\ regex_cache' = IF path_idx <= Len(search_paths)
                        /\ search_paths[path_idx].kind = "file"
                     THEN CacheAfterMatch({search_paths[path_idx]}, query)
                     ELSE regex_cache

\* one iteration of  for idx, priority in enumerate(sorted_priorities)  up to
\* the loop that yields (lines 527-546)
PrioScanTier ==
    /\ pc = "prio_tiers"
    /\ IF tiers_left = << >>
       THEN /\ pc' = "done"
            /\ UNCHANGED << examined, priority_results, result_idx >>
       ELSE LET entries == TierEntries(all_dirs_by_priority[Head(tiers_left)], query)
            IN  /\ examined' = examined \o [k \in 1..Len(entries) |-> entries[k].ref]
                /\ priority_results' = TierResults(entries, query)
                /\ result_idx' = 1
                /\ pc' = "prio_yield"
    /\ UNCHANGED << otherVars, inputVars, path_idx, yielded, plainVars, all_dirs_by_priority,
                    tiers_left, callbacks, callerVars >>
    /\ regex_cache' =
           IF tiers_left # << >>
           THEN LET entries == TierEntries(all_dirs_by_priority[Head(tiers_left)], query)
                IN  CacheAfterMatch({entries[k].ref : k \in 1..Len(entries)}, query)
           ELSE regex_cache

\* one iteration of  for result in priority_results: yield result , and after
\* the last the call of the progress callback (lines 549-560)
PrioYield ==
    /\ pc = "prio_yield"
    /\ IF result_idx <= Len(priority_results)
       THEN /\ yielded' = Append(yielded, priority_results[result_idx])
            /\ result_idx' = result_idx + 1
            /\ UNCHANGED << pc, tiers_left, callbacks >>
       ELSE LET total_priorities == Cardinality(PriorityKeys(all_dirs_by_priority))
            IN  /\ callbacks' =
                       IF engine.priority_callback
                       THEN Append(callbacks,
                                [priority_name |-> PriorityName(Head(tiers_left)),
                                 current |-> total_priorities - Len(tiers_left) + 1,
                                 total |-> total_priorities,
                                 result_paths |->
                                     [k \in 1..Len(priority_results) |->
                                         priority_results[k].result.file_path]])
                       ELSE callbacks
                /\ tiers_left' = Tail(tiers_left)
                /\ pc' = "prio_tiers"
                /\ UNCHANGED << yielded, result_idx >>
    /\ UNCHANGED << otherVars, inputVars, path_idx, examined, plainVars, all_dirs_by_priority,
                    priority_results, callerVars >>
    /\ UNCHANGED regex_cache


(***************************************************************************)
(* qry/__init__.py: the library calls                                      *)
(*                                                                         *)
(* pc = "end"  the caller has made its last call                           *)
(***************************************************************************)

\* qry.search: list(search_iter(...)) returns the results of the finished
\* search; the caller keeps them and makes its next call, with a new query
\* and a new generator, on the same filesystem
CallReturn ==
    /\ pc = "done"
    /\ match_out' = Append(match_out, [query |-> query, results |-> yielded])
    /\ IF pending = << >>
       THEN pc' = "end" /\ UNCHANGED << query, pending >>
       ELSE pc' = "start" /\ query' = Head(pending) /\ pending' = Tail(pending)
    /\ path_idx' = 1
    /\ walk_stack' = << >>
    /\ cur_dir' = 0
    /\ files_left' = << >>
    /\ count' = 0
    /\ yielded' = << >>
    /\ examined' = << >>
    /\ UNCHANGED << otherVars, regex_cache, fs, engine, search_paths, prioVars,
                    emitted, results >>


(***************************************************************************)
(* qry/__init__.py: search_iter, the library generator over one scope      *)
(*                                                                         *)
(* pc = "emit"  at the head of  for r in results: yield r.file_path        *)
(*      "end"   the library generator has returned                         *)
(***************************************************************************)

\* the characters of the model in the order of their code points
CodePointOrder ==
    << "\n", " ", "(", ".", "/", "A", "B", "^", "a", "b", "c", "d", "e", "f", "g",
       "h", "i", "l", "o", "p", "q", "r", "s", "t", "u", "x" >>

\* ord(c)
Ord(c) == CHOOSE i \in 1..Len(CodePointOrder) : CodePointOrder[i] = c

RECURSIVE StrLess(_, _)
\* s < t for two str: lexicographic by code point
StrLess(s, t) ==
    IF t = << >> THEN FALSE
    ELSE IF s = << >> THEN TRUE
    ELSE IF Head(s) = Head(t) THEN StrLess(Tail(s), Tail(t))
    ELSE Ord(Head(s)) < Ord(Head(t))

\* if sort_by:  -- None and the empty string are false
SortRequested(q) == q.sort_by # None /\ q.sort_by[1] # ""

\* key_fn(r1) < key_fn(r2), key_fn chosen by sort_by with the name key as the
\* default of the dict lookup
KeyLess(sort_by, r1, r2) ==
    CASE sort_by = "size" -> r1.size < r2.size
      [] sort_by = "date" -> r1.timestamp < r2.timestamp
      [] OTHER -> StrLess(LowerS(r1.file_path), LowerS(r2.file_path))

\* x put into a sorted list after the elements that are not greater
InsertByKey(sorted, x, sort_by) ==
    LET before == {i \in 1..Len(sorted) : ~KeyLess(sort_by, x, sorted[i])}
        k == Cardinality(before)
    IN  SubSeq(sorted, 1, k) \o << x >> \o SubSeq(sorted, k + 1, Len(sorted))

\* mutant of SortedByKey: the list is left as the engine gave it
SortedByKeyMutant(list, sort_by) == list

RECURSIVE SortedByKey(_, _)
\* results.sort(key=key_fn): the stable sort
SortedByKey(list, sort_by) ==
    IF list = << >> THEN << >>
    ELSE InsertByKey(SortedByKey(SubSeq(list, 1, Len(list) - 1), sort_by),
                     list[Len(list)], sort_by)

\* the library generator runs the engine only when its caller has taken what
\* it yielded (sort_by off), or collects without yielding (sort_by on)
ApiReady == SortRequested(query) \/ Len(emitted) = Len(yielded)

\* a step of engine.search_iter, run by list(engine.search(q, [scope])) or
\* by the for loop of line 116
ApiWalk == ApiReady /\ NextPlain

\* for result in engine.search_iter(q, [scope]): yield result.file_path
ApiForward ==
    /\ ~SortRequested(query)
    /\ Len(emitted) < Len(yielded)
    /\ emitted' = Append(emitted, yielded[Len(emitted) + 1].result.file_path)
    /\ UNCHANGED << otherVars, inputVars, pc, path_idx, yielded, examined, plainVars, prioVars,
                    results, match_out, pending >>
    /\ UNCHANGED regex_cache

\* results = list(engine.search(q, [scope])); results.sort(key=key_fn)
ApiSort ==
    /\ pc = "done"
    /\ SortRequested(query)
    /\ results' = SortedByKey([i \in 1..Len(yielded) |-> yielded[i].result],
                              query.sort_by[1])
    /\ pc' = "emit"
    /\ UNCHANGED << otherVars, inputVars, path_idx, yielded, examined, plainVars, prioVars,
                    emitted, match_out, pending >>
    /\ UNCHANGED regex_cache

\* for r in results: yield r.file_path
ApiEmit ==
    /\ pc = "emit"
    /\ IF Len(emitted) < Len(results)
       THEN emitted' = Append(emitted, results[Len(emitted) + 1].file_path)
            /\ pc' = pc
       ELSE pc' = "end" /\ UNCHANGED emitted
    /\ UNCHANGED << otherVars, inputVars, path_idx, yielded, examined, plainVars, prioVars,
                    results, match_out, pending >>
    /\ UNCHANGED regex_cache


(***************************************************************************)
(* The inputs of the model: bounded families of filesystems, queries and   *)
(* root lists.                                                             *)
(***************************************************************************)

\* directories of a filesystem, the top directory included
NDirs == 3

\* files in each directory of the structural family
FilesPerDir == 2

\* the small values of max_results
MaxCap == 3

\* the largest file size and size bound of the size-filter family
MaxSize == 3

\* the longest term of the OR-query family
MaxTermLen == 3

\* SearchQuery.max_results when the caller gives none
DefaultMaxResults == 1000

N_top == << "t" >>

N_git == << ".", "g", "i", "t" >>

N_src == << "s", "r", "c" >>

N_sub == << "s", "u", "b" >>

N_build == << "b", "u", "i", "l", "d" >>

Letters == << "a", "b", "c", "d", "e", "f", "g", "h" >>

\* the trees on 1..n in which every directory is numbered after its parent
ParentMaps(n) == {p \in [2..n -> 1..n] : \A d \in 2..n : p[d] < d}

\* no two entries of one directory share a name
SiblingsDistinct(p, nm, n) ==
    \A c, d \in 2..n : (c # d /\ p[c] = p[d]) => nm[c] # nm[d]

\* a filesystem of n directories with parents p and names nm, and files fl
MkFs(n, p, nm, fl) ==
    [dirs |-> [d \in 1..n |->
                  IF d = 1 THEN [parent |-> 0, name |-> N_top, size |-> 0, mtime |-> 0]
                  ELSE [parent |-> p[d], name |-> nm[d], size |-> 0, mtime |-> 0]],
     files |-> fl]

\* k files in each of n directories: the j-th file of a directory is named
\* by the j-th letter and has size and mtime j
UniformFiles(n, k) ==
    [i \in 1..(n * k) |->
        [dir |-> ((i - 1) \div k) + 1,
         name |-> << Letters[((i - 1) % k) + 1] >>,
         size |-> ((i - 1) % k) + 1,
         mtime |-> ((i - 1) % k) + 1,
         content |-> << >>,
         readable |-> TRUE,
         stat_ok |-> TRUE]]

PlainDirNames == {N_git, N_src, N_sub}

PlainFilesystems ==
    {MkFs(NDirs, p, nm, UniformFiles(NDirs, FilesPerDir)) :
        <<p, nm>> \in {pn \in ParentMaps(NDirs) \X [2..NDirs -> PlainDirNames] :
                          SiblingsDistinct(pn[1], pn[2], NDirs)}}

\* a SearchQuery with every filter off
BaseQuery ==
    [query_text |-> << >>, file_types |-> {}, date_range |-> None,
     max_results |-> DefaultMaxResults, max_depth |-> None, exclude_dirs |-> {},
     search_mode |-> "filename", min_size |-> None, max_size |-> None,
     use_regex |-> FALSE, sort_by |-> None]

OptionalIn(S) == {None} \cup {Some(v) : v \in S}

PlainQueries ==
    {[BaseQuery EXCEPT !.max_results = cap, !.max_depth = depth,
                       !.exclude_dirs = excl, !.min_size = lo] :
        cap \in (0..MaxCap) \cup {DefaultMaxResults},
        depth \in OptionalIn(0..(NDirs - 1)),
        excl \in {{}, {N_git}},
        lo \in {None, Some(2)}}

PlainRootLists ==
    {<< DirRef(1) >>, << Missing, DirRef(1) >>, << FileRef(1), DirRef(1) >>,
     << DirRef(2), DirRef(1) >>}

\* no incremental search has been started
IncrementalIdle ==
    /\ current_priority_idx = 0
    /\ results_queue = << >>
    /\ stop_search = FALSE
    /\ threads = << >>
    /\ found_results = FALSE
    /\ since_start = 0
    /\ since_last = 0
    /\ tier_ends = << >>

\* the caller consumes engine.search_iter itself and no interrupt arrives
NoInterrupt ==
    /\ entry = "search_iter"
    /\ collected = << >>
    /\ interrupted = FALSE
    /\ raised = FALSE

\* nothing cached
LateIdle ==
    /\ stat_cache = << >>
    /\ all_dirs = << >>
    /\ futures = << >>
    /\ future_results = << >>
    /\ self_date_range = << >>
    /\ generators = << >>

\* no lookup yet, no interrupt, no incremental search
OthersIdle ==
    /\ regex_cache = << >>
    /\ NoInterrupt
    /\ IncrementalIdle
    /\ LateIdle

\* the generator before its first step, the caller before its first call
FreshCall ==
    /\ pc = "start"
    /\ path_idx = 1
    /\ walk_stack = << >>
    /\ cur_dir = 0
    /\ files_left = << >>
    /\ count = 0
    /\ yielded = << >>
    /\ examined = << >>
    /\ all_dirs_by_priority = [t \in Tiers |-> << >>]
    /\ tiers_left = << >>
    /\ priority_results = << >>
    /\ result_idx = 1
    /\ callbacks = << >>
    /\ emitted = << >>
    /\ results = << >>
    /\ match_out = << >>

Fresh == FreshCall /\ OthersIdle

InitPlain ==
    /\ fs \in PlainFilesystems
    /\ engine = [priority_mode |-> FALSE, max_workers |-> 1,
                 priority_callback |-> FALSE]
    /\ query \in PlainQueries
    /\ search_paths \in PlainRootLists
    /\ pending = << >>
    /\ Fresh

SpecPlain == InitPlain /\ [][NextPlain]_vars

\* the Priority strategy: directory names of three tiers (src is SOURCE,
\* build is BUILD, sub falls to MAIN as the root does)
PrioDirNames == {N_src, N_build, N_sub}

PrioFilesystems ==
    {MkFs(NDirs, p, nm, UniformFiles(NDirs, FilesPerDir)) :
        <<p, nm>> \in {pn \in ParentMaps(NDirs) \X [2..NDirs -> PrioDirNames] :
                          SiblingsDistinct(pn[1], pn[2], NDirs)}}

PrioQueries ==
    {[BaseQuery EXCEPT !.max_results = cap, !.max_depth = depth,
                       !.exclude_dirs = excl, !.min_size = lo] :
        cap \in {1, DefaultMaxResults},
        depth \in OptionalIn(0..(NDirs - 2)),
        excl \in {{}, {N_build}},
        lo \in {None, Some(2)}}

InitPriority ==
    /\ fs \in PrioFilesystems
    /\ engine = [priority_mode |-> TRUE, max_workers |-> 1,
                 priority_callback |-> TRUE]
    /\ query \in PrioQueries
    /\ search_paths \in PlainRootLists
    /\ pending = << >>
    /\ Fresh

NextPriority == SearchIterStart \/ PrioCollectPath \/ PrioScanTier \/ PrioYield

SpecPriority == InitPriority /\ [][NextPriority]_vars

\* the size filter: a root and one directory below it, a file in each, of
\* every pair of sizes up to MaxSize; queries with every pair of bounds, with
\* and without a text
SizeFilesystems ==
    {MkFs(2, [d \in {2} |-> 1], [d \in {2} |-> N_sub],
          [i \in 1..2 |->
              [dir |-> i, name |-> << Letters[i] >>, size |-> sz[i], mtime |-> 1,
               content |-> << >>, readable |-> TRUE, stat_ok |-> TRUE]]) :
        sz \in [1..2 -> 0..MaxSize]}

SizeQueries ==
    {[BaseQuery EXCEPT !.query_text = text, !.max_results = cap,
                       !.min_size = lo, !.max_size = hi] :
        text \in {<< >>, << "a" >>, << "b" >>},
        cap \in {1, DefaultMaxResults},
        lo \in OptionalIn(0..MaxSize),
        hi \in OptionalIn(0..MaxSize)}

InitSize ==
    /\ fs \in SizeFilesystems
    /\ engine = [priority_mode |-> FALSE, max_workers |-> 1,
                 priority_callback |-> FALSE]
    /\ query \in SizeQueries
    /\ search_paths \in {<< DirRef(1) >>, << FileRef(2), DirRef(1) >>}
    /\ pending = << >>
    /\ Fresh

SpecSize == InitSize /\ [][NextPlain]_vars

\* the search modes: two files in the root, of every pair of names and of
\* contents from small sets, one of them readable or not; the caller searches
\* the same text once in each mode
T_a == << "a" >>

T_b == << "b" >>

T_A == << "A" >>

T_B == << "B" >>

T_p == << "p" >>

T_a_or_b == << "a", " ", "o", "r", " ", "b" >>

N_a_p == << "a", ".", "p" >>

N_b_q == << "b", ".", "q" >>

ModeNames == {T_a, T_b, N_a_p, N_b_q}

ModeContents == {<< >>, T_a, T_B}

ModeTexts == {<< >>, T_a, T_b, T_A, T_a_or_b}

ModeFilesystems ==
    {MkFs(1, << >>, << >>,
          [i \in 1..2 |->
              [dir |-> 1, name |-> nm[i], size |-> 1, mtime |-> 1,
               content |-> ct[i], readable |-> (i = 1 \/ rd), stat_ok |-> TRUE]]) :
        nm \in {n \in [1..2 -> ModeNames] : n[1] # n[2]},
        ct \in [1..2 -> ModeContents],
        rd \in BOOLEAN}

ModeQueries ==
    {[BaseQuery EXCEPT !.query_text = text, !.file_types = types,
                       !.use_regex = rx] :
        text \in ModeTexts, types \in {{}, {T_p}}, rx \in BOOLEAN}

InitModes ==
    /\ fs \in ModeFilesystems
    /\ engine = [priority_mode |-> FALSE, max_workers |-> 1,
                 priority_callback |-> FALSE]
    /\ \E q \in ModeQueries :
           /\ query = [q EXCEPT !.search_mode = "filename"]
           /\ pending = << [q EXCEPT !.search_mode = "content"],
                           [q EXCEPT !.search_mode = "both"] >>
    /\ search_paths = << DirRef(1) >>
    /\ Fresh

NextCalls == NextPlain \/ CallReturn

SpecModes == InitModes /\ [][NextCalls]_vars

\* OR queries: three files in the root; the caller searches a, then b, then
\* "a or b", in one mode; a is any string up to MaxTermLen over the letters
\* of the delimiter and one more, b any shorter one, and both may also be
\* the delimiter itself
StringsUpTo(alphabet, n) == UNION {[1..k -> alphabet] : k \in 0..n}

OrAlphabet == {" ", "o", "r", "x"}

T_x == << "x" >>

T_space == << " " >>

T_o == << "o" >>

T_or_x == << "o", "r", " ", "x" >>

OrFirstTerms == StringsUpTo(OrAlphabet, MaxTermLen) \cup {OrDelimiter}

OrSecondTerms == StringsUpTo(OrAlphabet, MaxTermLen - 1) \cup {OrDelimiter}

OrFilesystem ==
    MkFs(1, << >>, << >>,
         << [dir |-> 1, name |-> T_x, size |-> 1, mtime |-> 1,
             content |-> T_space, readable |-> TRUE, stat_ok |-> TRUE],
            [dir |-> 1, name |-> T_space, size |-> 1, mtime |-> 1,
             content |-> T_x, readable |-> TRUE, stat_ok |-> TRUE],
            [dir |-> 1, name |-> T_o, size |-> 1, mtime |-> 1,
             content |-> T_or_x, readable |-> TRUE, stat_ok |-> TRUE] >>)

\* the query text "a or b"
OrQueryText(a, b) == a \o OrDelimiter \o b

InitOr ==
    /\ fs = OrFilesystem
    /\ engine = [priority_mode |-> FALSE, max_workers |-> 1,
                 priority_callback |-> FALSE]
    /\ \E a \in OrFirstTerms, b \in OrSecondTerms, mode \in {"filename", "content"} :
           LET q == [BaseQuery EXCEPT !.search_mode = mode]
           IN  /\ query = [q EXCEPT !.query_text = a]
               /\ pending = << [q EXCEPT !.query_text = b],
                               [q EXCEPT !.query_text = OrQueryText(a, b)] >>
    /\ search_paths = << DirRef(1) >>
    /\ Fresh

SpecOr == InitOr /\ [][NextCalls]_vars

\* filename search: a root with a file, a ".git" directory and a "sub"
\* directory with a file each; the text is any non-empty string up to
\* MaxTermLen + 1 over the letters of the delimiter and "a", "A"
N_A_or_b == << "A", " ", "o", "r", " ", "b" >>

N_ro_a == << "r", "o", " ", "a" >>

N_a_r == << "a", " ", "r" >>

FindFilesystem ==
    MkFs(3, [d \in 2..3 |-> 1], [d \in 2..3 |-> IF d = 2 THEN N_git ELSE N_sub],
         [i \in 1..3 |->
             [dir |-> i,
              name |-> CASE i = 1 -> N_A_or_b [] i = 2 -> N_ro_a [] i = 3 -> N_a_r,
              size |-> 1, mtime |-> 1, content |-> << >>, readable |-> TRUE,
              stat_ok |-> TRUE]])

FindAlphabet == {" ", "o", "r", "a", "A"}

FindTexts == StringsUpTo(FindAlphabet, MaxTermLen + 1) \ {<< >>}

InitFind ==
    /\ fs = FindFilesystem
    /\ engine = [priority_mode |-> FALSE, max_workers |-> 1,
                 priority_callback |-> FALSE]
    /\ query \in {[BaseQuery EXCEPT !.query_text = text, !.exclude_dirs = excl] :
                     text \in FindTexts, excl \in {{}, {N_git}}}
    /\ search_paths = << DirRef(1) >>
    /\ pending = << >>
    /\ Fresh

SpecFind == InitFind /\ [][NextPlain]_vars

\* sorting: two files in the root and one in "sub", of every choice of names
\* (of both cases), sizes and modification times; sort_by off, one of the
\* three keys, or an unknown key
T_c == << "c" >>

SortFilesystems ==
    {MkFs(2, [d \in {2} |-> 1], [d \in {2} |-> N_sub],
          [i \in 1..3 |->
              [dir |-> IF i = 3 THEN 2 ELSE 1, name |-> nm[i], size |-> sz[i],
               mtime |-> mt[i], content |-> << >>, readable |-> TRUE,
               stat_ok |-> TRUE]]) :
        nm \in {n \in [1..3 -> {T_a, T_B, T_c}] : n[1] # n[2]},
        sz \in [1..3 -> 1..2],
        mt \in [1..3 -> 1..2]}

SortKeys == {None, Some("name"), Some("size"), Some("date"), Some("path")}

InitSort ==
    /\ fs \in SortFilesystems
    /\ engine = [priority_mode |-> FALSE, max_workers |-> 1,
                 priority_callback |-> FALSE]
    /\ query \in {[BaseQuery EXCEPT !.sort_by = key] : key \in SortKeys}
    /\ search_paths = << DirRef(1) >>
    /\ pending = << >>
    /\ Fresh

NextSort == ApiWalk \/ ApiForward \/ ApiSort \/ ApiEmit

SpecSort == InitSort /\ [][NextSort]_vars


(***************************************************************************)
(* Properties of the Plain strategy (SpecPlain)                            *)
(***************************************************************************)

\* the root a yielded result was found under
RootOf(y) == search_paths[y.root]

\* the directory that holds a yielded result
ContainingDir(y) == EntryParent(y.result.node)

\* the directory names between the root (not included) and the result
SegmentsBelowRoot(y) == RelSegments(RootOf(y).id, ContainingDir(y))

\* the entries yielded under root number r
YieldedUnder(r) == {yielded[i].result.node : i \in {j \in 1..Len(yielded) : yielded[j].root = r}}

\* the generator has returned without reaching max_results
DoneUncapped == pc = "done" /\ ~CapReached(count, query)

\* file i lies below directory root and no directory between them is excluded
Reachable(root, i, q) ==
    /\ IsUnder(root, fs.files[i].dir)
    /\ Range(RelSegments(root, fs.files[i].dir)) \cap q.exclude_dirs = {}

\* C1: with max_results = N >= 0 the Plain strategy yields at most N results
\* over all roots, and examines no file once the N-th result is out (the
\* last file examined is then the one that gave the N-th result; for N = 0
\* none is examined).
C1_HardCap ==
    /\ Len(yielded) <= query.max_results
    /\ Len(yielded) >= query.max_results =>
           IF query.max_results = 0 THEN examined = << >>
           ELSE examined[Len(examined)] = yielded[query.max_results].result.node

\* C3: Plain strategy: no yielded result has a directory named in
\* exclude_dirs between its root and itself, and no entry of such a
\* directory is ever examined; with exclude_dirs empty a finished, uncapped
\* search has yielded every accepted file below each directory root.
C3_ExcludedNeverDescended ==
    /\ \A i \in 1..Len(yielded) :
           RootOf(yielded[i]).kind = "dir" =>
               Range(SegmentsBelowRoot(yielded[i])) \cap query.exclude_dirs = {}
    /\ \A i \in 1..Len(examined) :
           \/ examined[i] \in Range(search_paths)
           \/ \E r \in 1..Len(search_paths) :
                  /\ search_paths[r].kind = "dir"
                  /\ Reachable(search_paths[r].id, examined[i].id, query)
    /\ (DoneUncapped /\ query.exclude_dirs = {} /\ query.max_depth = None) =>
           \A r \in 1..Len(search_paths) : \A i \in 1..Len(fs.files) :
               (/\ search_paths[r].kind = "dir"
                /\ IsUnder(search_paths[r].id, fs.files[i].dir)
                /\ Accepts(FileRef(i), query)) => FileRef(i) \in YieldedUnder(r)

\* C3 witness: a finished search that excluded ".git", on a tree where an
\* accepted file lies inside a ".git" directory, and that yielded something
C3_Witness ==
    /\ DoneUncapped
    /\ N_git \in query.exclude_dirs
    /\ yielded # << >>
    /\ \E i \in 1..Len(fs.files) :
           /\ N_git \in Range(RelSegments(1, fs.files[i].dir))
           /\ Accepts(FileRef(i), query)

\* C4: Plain strategy with max_depth = d: an accepted file below a
\* directory root (no excluded directory on the way) is yielded under that
\* root iff its directory is at depth <= d, when the search has finished
\* without reaching the cap; and never is a deeper file yielded.
C4_DepthInclusive ==
    query.max_depth # None =>
        /\ \A i \in 1..Len(yielded) :
               RootOf(yielded[i]).kind = "dir" =>
                   Len(SegmentsBelowRoot(yielded[i])) <= query.max_depth[1]
        /\ DoneUncapped =>
               \A r \in 1..Len(search_paths) : \A i \in 1..Len(fs.files) :
                   (/\ search_paths[r].kind = "dir"
                    /\ Reachable(search_paths[r].id, i, query)
                    /\ Accepts(FileRef(i), query)) =>
                       (FileRef(i) \in YieldedUnder(r)
                            <=> DepthOf(search_paths[r].id, fs.files[i].dir)
                                    <= query.max_depth[1])

\* C4 witness: a finished, uncapped search with a depth limit that yielded a
\* file at the limit and left out an accepted file below it
C4_Witness ==
    /\ DoneUncapped
    /\ query.max_depth # None
    /\ \E i \in 1..Len(yielded) :
           /\ RootOf(yielded[i]).kind = "dir"
           /\ Len(SegmentsBelowRoot(yielded[i])) = query.max_depth[1]
    /\ \E i \in 1..Len(fs.files) :
           /\ Reachable(1, i, query)
           /\ Accepts(FileRef(i), query)
           /\ DepthOf(1, fs.files[i].dir) > query.max_depth[1]
           /\ \A j \in 1..Len(yielded) : yielded[j].result.node # FileRef(i)

(***************************************************************************)
(* Properties of the Priority strategy (SpecPriority)                      *)
(***************************************************************************)

\* C2: with priority_mode on, search_iter never yields more than
\* query.max_results results.
C2_PriorityHardCap == Len(yielded) <= query.max_results

\* the tier of directory d found under root number r, from its path
\* relative to that root
TierOfDir(r, d) == GetDirectoryPriority(RelPathSegments(search_paths[r].id, d))

\* the tier of the directory that holds a yielded result
TierOf(y) == TierOfDir(y.root, ContainingDir(y))

\* the positions in yielded of the results found inside directory roots
InDirRoots == {i \in 1..Len(yielded) : RootOf(yielded[i]).kind = "dir"}

\* the positions in yielded of the results found in directory d under root r
YieldedIn(r, d) ==
    {i \in InDirRoots : yielded[i].root = r /\ ContainingDir(yielded[i]) = d}

\* C5: Priority strategy: of two results found inside directory roots, the
\* one yielded first has a containing directory of the same or a higher
\* tier; so every match of a higher tier is out before any of a lower tier.
\* (The directories that hold results are taken with their tiers, and of two
\* of them of different tiers every result in the higher comes first.)
C5_TierOrder ==
    LET holders == {<< yielded[i].root, ContainingDir(yielded[i]) >> : i \in InDirRoots}
        tiered == {<< h[1], h[2], TierOfDir(h[1], h[2]) >> : h \in holders}
    IN  \A hi, lo \in tiered :
            hi[3] > lo[3] =>
                \A i \in YieldedIn(hi[1], hi[2]), j \in YieldedIn(lo[1], lo[2]) : i < j

\* C5 witness: a finished priority search whose results inside directory
\* roots come from three different tiers
C5_Witness ==
    /\ engine.priority_mode
    /\ pc = "done"
    /\ Cardinality({TierOf(yielded[i]) : i \in InDirRoots}) >= 3

(***************************************************************************)
(* Properties of the match predicate's size filter (SpecSize)              *)
(***************************************************************************)

\* size satisfies the bounds that are set
WithinBounds(size, q) ==
    /\ q.min_size # None => q.min_size[1] <= size
    /\ q.max_size # None => size <= q.max_size[1]

\* the query with the size bounds taken off: the other filters
WithoutSizeBounds(q) == [q EXCEPT !.min_size = None, !.max_size = None]

\* C6: every yielded result is within the size bounds that are set; a file
\* that passes the other filters is accepted exactly when its size is within
\* them (and is then yielded by a search that finishes below the cap); with
\* min_size > max_size nothing is accepted.
C6_SizeFilter ==
    /\ \A i \in 1..Len(yielded) : WithinBounds(yielded[i].result.size, query)
    /\ \A i \in 1..Len(fs.files) :
           Accepts(FileRef(i), WithoutSizeBounds(query)) =>
               (Accepts(FileRef(i), query) <=> WithinBounds(fs.files[i].size, query))
    /\ DoneUncapped =>
           \A i \in 1..Len(fs.files) :
               (/\ Accepts(FileRef(i), WithoutSizeBounds(query))
                /\ WithinBounds(fs.files[i].size, query))
                   => \E j \in 1..Len(yielded) : yielded[j].result.node = FileRef(i)
    /\ (/\ query.min_size # None /\ query.max_size # None
        /\ query.min_size[1] > query.max_size[1]) => yielded = << >>

\* C6 witness: a finished search with both bounds set, min_size <= max_size,
\* that yielded a file of a size within them and left out a file that passes
\* the other filters and is too large
C6_Witness ==
    /\ DoneUncapped
    /\ query.min_size # None /\ query.max_size # None
    /\ query.min_size[1] <= query.max_size[1]
    /\ yielded # << >>
    /\ \E i \in 1..Len(fs.files) :
           /\ Accepts(FileRef(i), WithoutSizeBounds(query))
           /\ fs.files[i].size > query.max_size[1]
           /\ \A j \in 1..Len(yielded) : yielded[j].result.node # FileRef(i)

\* C6 witness of the contradictory bounds: a finished search with
\* min_size > max_size over files that pass the other filters
C6_ContradictoryBounds ==
    /\ pc = "done"
    /\ query.min_size # None /\ query.max_size # None
    /\ query.min_size[1] > query.max_size[1]
    /\ \E i \in 1..Len(fs.files) : Accepts(FileRef(i), WithoutSizeBounds(query))

(***************************************************************************)
(* Properties of the search modes (SpecModes)                              *)
(***************************************************************************)

\* the result set of the k-th call that has returned
ResultSet(k) == {match_out[k].results[i].result.node : i \in 1..Len(match_out[k].results)}

\* the caller has made its calls and all have returned
CallsDone == pc = "end"

\* two files that differ at most in their names
SameButName(i, j) ==
    /\ fs.files[i].dir = fs.files[j].dir
    /\ fs.files[i].content = fs.files[j].content
    /\ fs.files[i].size = fs.files[j].size
    /\ fs.files[i].mtime = fs.files[j].mtime
    /\ fs.files[i].readable = fs.files[j].readable
    /\ fs.files[i].stat_ok = fs.files[j].stat_ok

\* the searches in mode both, filename and content (calls 3, 1 and 2) give
\* result sets with  both = filename \cup content
ModesUnion == ResultSet(3) = ResultSet(1) \cup ResultSet(2)

TermA == match_out[1].query.query_text

TermB == match_out[2].query.query_text

\* the searches for a, b and "a or b" (calls 1, 2 and 3): the last found
\* everything the first two found
OrSuperset == (ResultSet(1) \cup ResultSet(2)) \subseteq ResultSet(3)

HasAlternative(t) == OrTerms(LowerS(t)) # << >>

\* the term ends with " or"
EndsWithOr(t) ==
    Len(t) >= 3 /\ Slice(t, Len(t) - 2, Len(t)) = << " ", "o", "r" >>

SameLetter(c, d) == c = d \/ {c, d} \in {{"a", "A"}, {"b", "B"}}

\* S occurs in the name of file i, ignoring letter case
OccursInName(S, i) ==
    LET name == fs.files[i].name
    IN  \E k \in 0..(Len(name) - Len(S)) :
            \A j \in 1..Len(S) : SameLetter(name[k + j], S[j])

\* the finished search has yielded every file below the root, outside the
\* excluded directories, whose name holds the query text ignoring case
FindsEveryName ==
    \A i \in 1..Len(fs.files) :
        (Reachable(1, i, query) /\ OccursInName(query.query_text, i))
            => FileRef(i) \in YieldedUnder(1)

Occurrences(p, paths) == Cardinality({i \in 1..Len(paths) : paths[i] = p})

\* the paths of the engine's results, in the order the engine gave them
UnsortedPaths == [i \in 1..Len(yielded) |-> yielded[i].result.file_path]

\* the result of the engine that stands behind the k-th emitted path
EmittedResult(k) == results[k]

\* C10: with sort_by set, qry.search_iter emits nothing before the engine's
\* walk has finished; what it has emitted at its end is a permutation of the
\* engine's unsorted result list, in non-decreasing order of the key: the
\* lower-cased path for name, the size for size, the modification time for
\* date.
C10_SortedAfterWalk ==
    SortRequested(query) =>
        /\ pc \notin {"emit", "end"} => emitted = << >>
        /\ pc = "end" =>
               /\ Len(emitted) = Len(yielded)
               /\ \A i \in 1..Len(yielded) :
                      Occurrences(UnsortedPaths[i], emitted)
                          = Occurrences(UnsortedPaths[i], UnsortedPaths)
               /\ \A k \in 1..Len(emitted) : emitted[k] = EmittedResult(k).file_path
               /\ \A k, l \in 1..Len(emitted) :
                      k < l =>
                          CASE query.sort_by[1] = "name" ->
                                   ~StrLess(LowerS(emitted[l]), LowerS(emitted[k]))
                            [] query.sort_by[1] = "size" ->
                                   EmittedResult(k).size <= EmittedResult(l).size
                            [] query.sort_by[1] = "date" ->
                                   EmittedResult(k).timestamp <= EmittedResult(l).timestamp
                            [] OTHER -> TRUE

\* C10 witness: a search sorted by name has ended; the engine found "t/B"
\* before "t/a", and the sorted output has them the other way round
C10_Witness ==
    /\ pc = "end"
    /\ query.sort_by = Some("name")
    /\ Len(emitted) = 3
    /\ UnsortedPaths[1] = << "t", "/", "B" >>
    /\ UnsortedPaths[2] = << "t", "/", "a" >>
    /\ emitted[1] = << "t", "/", "a" >>
    /\ emitted[2] = << "t", "/", "B" >>


(***************************************************************************)
(* FastContentSearcher.search_file as a function of its arguments.  The    *)
(* caller holds one file and makes the calls of pending, each a record     *)
(* [patterns, case_sensitive]; every call that has returned is kept in     *)
(* match_out with its verdict.                                             *)
(*                                                                         *)
(* pc = "search_file"  the caller is about to call search_file             *)
(***************************************************************************)

\* every variable of the engine generator and of the caller at rest
Quiet ==
    /\ engine = [priority_mode |-> FALSE, max_workers |-> 1,
                 priority_callback |-> FALSE]
    /\ query = BaseQuery
    /\ path_idx = 1
    /\ walk_stack = << >>
    /\ cur_dir = 0
    /\ files_left = << >>
    /\ count = 0
    /\ yielded = << >>
    /\ examined = << >>
    /\ all_dirs_by_priority = [t \in Tiers |-> << >>]
    /\ tiers_left = << >>
    /\ priority_results = << >>
    /\ result_idx = 1
    /\ callbacks = << >>
    /\ emitted = << >>
    /\ results = << >>
    /\ match_out = << >>
    /\ OthersIdle

\* searcher.search_file(path of file 1, patterns, case_sensitive)
SearchFileCall ==
    /\ pc = "search_file"
    /\ pending # << >>
    /\ match_out' = Append(match_out,
                           [query |-> Head(pending),
                            results |-> SearchFile(FileRef(1), Head(pending).patterns,
                                                   Head(pending).case_sensitive)])
    /\ pending' = Tail(pending)
    /\ pc' = IF Tail(pending) = << >> THEN "end" ELSE "search_file"
    /\ UNCHANGED << otherVars, inputVars, path_idx, yielded, examined, plainVars, prioVars,
                    emitted, results >>
    /\ UNCHANGED regex_cache

MaxPatLen == 2

MaxPatterns == 2

CaseAlphabet == {"a", "A", "b"}

\* the non-empty lists of at most MaxPatterns elements of S
ListsOf(S) == UNION {[1..k -> S] : k \in 1..MaxPatterns}

\* one readable file in the top directory; os.path.getsize gives size
OneFile(data, size) ==
    MkFs(1, << >>, << >>,
         << [dir |-> 1, name |-> << "f" >>, size |-> size, mtime |-> 1,
             content |-> data, readable |-> TRUE, stat_ok |-> TRUE] >>)

\* the file is either as long as its content, or larger than the mmap
\* threshold: then content is the part of the data that decides the search
ContentFiles ==
    {OneFile(data, Len(data)) : data \in StringsUpTo(CaseAlphabet, MaxPatLen)}
        \cup {OneFile(data, MmapThreshold + 1) :
                 data \in StringsUpTo(CaseAlphabet, MaxPatLen) \ {<< >>}}

SearchFileCalls ==
    {[patterns |-> ps, case_sensitive |-> cs] :
        ps \in ListsOf(StringsUpTo(CaseAlphabet, MaxPatLen)), cs \in BOOLEAN}

InitContent ==
    /\ fs \in ContentFiles
    /\ search_paths = << FileRef(1) >>
    /\ pending \in {<< c >> : c \in SearchFileCalls}
    /\ pc = "search_file"
    /\ Quiet

SpecContent == InitContent /\ [][SearchFileCall]_vars

\* pattern occurs in data as a literal substring: with exact case, or
\* ignoring letter case
OccursIn(pattern, data, exact) ==
    \E k \in 0..(Len(data) - Len(pattern)) :
        \A j \in 1..Len(pattern) :
            IF exact THEN data[k + j] = pattern[j]
            ELSE SameLetter(data[k + j], pattern[j])

\* the verdict the literal-substring reading gives to a call
LiteralVerdict(call) ==
    \E i \in 1..Len(call.patterns) :
        OccursIn(call.patterns[i], EntryData(FileRef(1)), call.case_sensitive)

\* C11: for every readable file, every non-empty pattern list and both
\* values of case_sensitive, search_file returns true exactly when at least
\* one pattern occurs in the content as a literal substring (exact case when
\* case_sensitive, ignoring case otherwise), whichever of the three
\* algorithms the size and the number of patterns select
C11_SearchFileLiteral ==
    \A k \in 1..Len(match_out) :
        match_out[k].results = LiteralVerdict(match_out[k].query)

\* the same for the calls that ask for exact case on a file above the mmap
\* threshold with one pattern
C11_MmapCaseSensitive ==
    \A k \in 1..Len(match_out) :
        (/\ match_out[k].query.case_sensitive
         /\ Len(match_out[k].query.patterns) = 1
         /\ EntrySize(FileRef(1)) > MmapThreshold)
            => match_out[k].results = LiteralVerdict(match_out[k].query)

\* the same for the calls on files up to the threshold whose patterns are
\* all non-empty
C11_SmallFileNonEmptyPatterns ==
    \A k \in 1..Len(match_out) :
        (/\ EntrySize(FileRef(1)) <= MmapThreshold
         /\ \A i \in 1..Len(match_out[k].query.patterns) :
                match_out[k].query.patterns[i] # << >>)
            => match_out[k].results = LiteralVerdict(match_out[k].query)


(***************************************************************************)
(* qry/engines/fast_search.py: the single-pattern scans.  A text is a      *)
(* sequence of bytes, positions in the results are 0-based offsets as in   *)
(* the code.                                                               *)
(***************************************************************************)

RECURSIVE StrFindFrom(_, _, _)
\* str_find_search from  start  on: idx = text.find(pattern, start) ...
StrFindFrom(text, pattern, start) ==
    LET idx == Find(text, pattern, start + 1) - 1
    IN  IF idx = -1 THEN << >>
        ELSE << idx >> \o StrFindFrom(text, pattern, idx + 1)

StrFindSearch(text, pattern) == StrFindFrom(text, pattern, 0)

\* _build_bmh_table(pattern)[b]: the last assignment to table[b] wins
BmhTable(pattern, b) ==
    LET m == Len(pattern)
        F[i \in 0..(m - 1)] ==
            IF i = 0 THEN m
            ELSE IF pattern[i] = b THEN m - 1 - (i - 1) ELSE F[i - 1]
    IN  F[m - 1]

RECURSIVE BmhCompare(_, _, _, _)
\* while j >= 0 and text[k] == pattern[j]: j -= 1; k -= 1   (the final j)
BmhCompare(text, pattern, j, k) ==
    IF j >= 0 /\ text[k + 1] = pattern[j + 1]
    THEN BmhCompare(text, pattern, j - 1, k - 1)
    ELSE j

RECURSIVE BmhFrom(_, _, _)
\* bmh_search: while i < n
BmhFrom(text, pattern, i) ==
    IF i >= Len(text) THEN << >>
    ELSE LET m == Len(pattern)
             j == BmhCompare(text, pattern, m - 1, i)
             found == IF j = -1 THEN << i - m + 1 >> ELSE << >>
         IN  found \o BmhFrom(text, pattern, i + BmhTable(pattern, text[i + 1]))

BmhSearch(text, pattern) ==
    IF Len(pattern) = 0 \/ Len(pattern) > Len(text) THEN << >>
    ELSE BmhFrom(text, pattern, Len(pattern) - 1)

RECURSIVE KmpFallback(_, _, _, _)
\* while j > 0 and c != pattern[j]: j = table[j - 1]
KmpFallback(pattern, table, c, j) ==
    IF j > 0 /\ c # pattern[j + 1]
    THEN KmpFallback(pattern, table, c, table[j])
    ELSE j

RECURSIVE KmpTableFrom(_, _, _, _)
\* _build_kmp_table: for i in range(1, m), table given as a list so far
KmpTableFrom(pattern, table, i, j) ==
    IF i >= Len(pattern) THEN table
    ELSE LET back == KmpFallback(pattern, table, pattern[i + 1], j)
             next == IF pattern[i + 1] = pattern[back + 1] THEN back + 1 ELSE back
         IN  KmpTableFrom(pattern, [table EXCEPT ![i + 1] = next], i + 1, next)

KmpTable(pattern) ==
    KmpTableFrom(pattern, [i \in 1..Len(pattern) |-> 0], 1, 0)

RECURSIVE KmpFrom(_, _, _, _, _)
\* kmp_search: for i in range(n)
KmpFrom(text, pattern, table, i, j) ==
    IF i >= Len(text) THEN << >>
    ELSE LET m == Len(pattern)
             back == KmpFallback(pattern, table, text[i + 1], j)
             next == IF text[i + 1] = pattern[back + 1] THEN back + 1 ELSE back
         IN  IF next = m
             THEN << i - m + 1 >> \o KmpFrom(text, pattern, table, i + 1, table[next])
             ELSE KmpFrom(text, pattern, table, i + 1, next)

KmpSearch(text, pattern) ==
    IF Len(pattern) = 0 THEN << >>
    ELSE KmpFrom(text, pattern, KmpTable(pattern), 0, 0)

(***************************************************************************)
(* The scans as functions of their arguments: the caller makes the calls   *)
(* of pending, each a record [text, pattern], and keeps what the three     *)
(* routines return.                                                        *)
(*                                                                         *)
(* pc = "scan"  the caller is about to run the three scans                 *)
(***************************************************************************)

ScanCall ==
    /\ pc = "scan"
    /\ pending # << >>
    /\ LET text == Head(pending).text
           pattern == Head(pending).pattern
       IN  match_out' = Append(match_out,
                               [query |-> Head(pending),
                                results |-> [bmh |-> BmhSearch(text, pattern),
                                             kmp |-> KmpSearch(text, pattern),
                                             str_find |-> StrFindSearch(text, pattern)]])
    /\ pending' = Tail(pending)
    /\ pc' = IF Tail(pending) = << >> THEN "end" ELSE "scan"
    /\ UNCHANGED << otherVars, inputVars, path_idx, yielded, examined, plainVars, prioVars,
                    emitted, results >>
    /\ UNCHANGED regex_cache

MaxTextLen == 4

ByteAlphabet == {"a", "b"}

ScanCalls ==
    {[text |-> t, pattern |-> p] :
        t \in StringsUpTo(ByteAlphabet, MaxTextLen),
        p \in StringsUpTo(ByteAlphabet, MaxPatLen + 1)}

InitScan ==
    /\ fs = OneFile(<< >>, 0)
    /\ search_paths = << FileRef(1) >>
    /\ pending \in {<< c >> : c \in ScanCalls}
    /\ pc = "scan"
    /\ Quiet

SpecScan == InitScan /\ [][ScanCall]_vars

\* the start offsets of all occurrences of pattern in text, ascending
AllOccurrences(text, pattern) ==
    LET at == {k \in 0..(Len(text) - Len(pattern)) :
                  \A j \in 1..Len(pattern) : text[k + j] = pattern[j]}
        F[n \in -1..Len(text)] ==
            IF n = -1 THEN << >>
            ELSE IF n \in at THEN Append(F[n - 1], n) ELSE F[n - 1]
    IN  F[Len(text)]

\* C13: for every byte text and every byte pattern, bmh_search and
\* kmp_search each return the same list as str_find_search: the start
\* offsets of all occurrences of the pattern, overlapping ones included, in
\* ascending order
C13_ScansInterchangeable ==
    \A k \in 1..Len(match_out) :
        LET r == match_out[k].results
            call == match_out[k].query
        IN  /\ r.bmh = r.str_find
            /\ r.kmp = r.str_find
            /\ r.str_find = AllOccurrences(call.text, call.pattern)

\* the same for every non-empty pattern; for the empty pattern bmh_search
\* and kmp_search return the empty list while str_find_search returns every
\* offset from 0 to the length of the text
C13_NonEmptyPatterns ==
    \A k \in 1..Len(match_out) :
        LET r == match_out[k].results
            call == match_out[k].query
        IN  /\ r.str_find = AllOccurrences(call.text, call.pattern)
            /\ IF call.pattern # << >>
               THEN r.bmh = r.str_find /\ r.kmp = r.str_find
               ELSE /\ r.bmh = << >>
                    /\ r.kmp = << >>
                    /\ r.str_find = [i \in 1..(Len(call.text) + 1) |-> i - 1]


(***************************************************************************)
(* The cross-check of the multi-pattern and the single-pattern code paths: *)
(* the caller holds one file, and for each call [patterns, case_sensitive] *)
(* of pending runs the automaton and the single-pattern scan on the        *)
(* content, and both file checks.                                          *)
(*                                                                         *)
(* pc = "cross_check"  the caller is about to run them                     *)
(***************************************************************************)

AcCrossCheck ==
    /\ pc = "cross_check"
    /\ pending # << >>
    /\ LET patterns == Head(pending).patterns
           cs == Head(pending).case_sensitive
           text == EntryData(FileRef(1))
       IN  match_out' =
               Append(match_out,
                      [query |-> Head(pending),
                       results |->
                          [pairs |-> AcSearch(AhoCorasick(patterns), text),
                           scans |-> [i \in 1..Len(patterns) |->
                                         StrFindSearch(text, patterns[i])],
                           multi |-> AhoCorasickFile(FileRef(1), patterns, cs),
                           single |-> [i \in 1..Len(patterns) |->
                                          StrFindFile(FileRef(1), patterns[i], cs)]]])
    /\ pending' = Tail(pending)
    /\ pc' = IF Tail(pending) = << >> THEN "end" ELSE "cross_check"
    /\ UNCHANGED << otherVars, inputVars, path_idx, yielded, examined, plainVars, prioVars,
                    emitted, results >>
    /\ UNCHANGED regex_cache

AcAlphabet == {"a", "A"}

CrossCheckCalls ==
    {[patterns |-> ps, case_sensitive |-> cs] :
        ps \in ListsOf(StringsUpTo(AcAlphabet, MaxPatLen)), cs \in BOOLEAN}

InitCrossCheck ==
    /\ fs \in {OneFile(data, Len(data)) : data \in StringsUpTo(AcAlphabet, MaxTextLen)}
    /\ search_paths = << FileRef(1) >>
    /\ pending \in {<< c >> : c \in CrossCheckCalls}
    /\ pc = "cross_check"
    /\ Quiet

SpecCrossCheck == InitCrossCheck /\ [][AcCrossCheck]_vars

\* the set of pairs << start offset, pattern >> of a result of the automaton
PairSet(pairs) == Range(pairs)

\* the union over the patterns of the occurrences the single scans found
ScanUnion(patterns, scans) ==
    UNION {{<< scans[i][n], patterns[i] >> : n \in 1..Len(scans[i])} :
              i \in 1..Len(patterns)}

\* the automaton agrees with the scans, and the file checks with each other
CrossCheckAgrees(k) ==
    LET r == match_out[k].results
        patterns == match_out[k].query.patterns
    IN  /\ PairSet(r.pairs) = ScanUnion(patterns, r.scans)
        /\ r.multi = (\E i \in 1..Len(patterns) : r.single[i])

\* C12: for every text and every list of patterns, the set of (start
\* offset, pattern) pairs of AhoCorasick(patterns).search(text) equals the
\* union over the patterns of the occurrences a single-pattern scan finds,
\* and the multi-pattern file check is true exactly when the single-pattern
\* file check is true for at least one of the patterns
C12_AhoCorasickCrossCheck ==
    \A k \in 1..Len(match_out) : CrossCheckAgrees(k)

\* the same for the lists that hold no empty pattern
C12_NonEmptyPatterns ==
    \A k \in 1..Len(match_out) :
        (\A i \in 1..Len(match_out[k].query.patterns) :
             match_out[k].query.patterns[i] # << >>)
            => CrossCheckAgrees(k)


(***************************************************************************)
(* Regex queries whose text is no valid regular expression: two files in   *)
(* the root, the caller makes the same call twice, so that the lookups of  *)
(* the second call find the key in the cache.                              *)
(***************************************************************************)

RegexAlphabet == {"(", ".", "\n", "b"}

\* the texts up to MaxPatLen characters that re.compile rejects
InvalidTexts ==
    {t \in StringsUpTo(RegexAlphabet, MaxPatLen) : RegexInvalid(t)}

RegexNames == {<< "a", "(" >>, << "A", "(" >>, << "(", "b" >>, << "b" >>}

RegexContents ==
    {<< >>, << "A", "(" >>, << "(", "\n" >>, << "a", "\n", "(" >>, << "(", "b" >>}

RegexFilesystems ==
    {MkFs(1, << >>, << >>,
          << [dir |-> 1, name |-> nm, size |-> 1, mtime |-> 1, content |-> c1,
              readable |-> TRUE, stat_ok |-> TRUE],
             [dir |-> 1, name |-> << "c" >>, size |-> 1, mtime |-> 1, content |-> c2,
              readable |-> TRUE, stat_ok |-> TRUE] >>) :
        nm \in RegexNames, c1 \in RegexContents, c2 \in RegexContents}

RegexQueries ==
    {[BaseQuery EXCEPT !.query_text = text, !.search_mode = mode, !.use_regex = TRUE] :
        text \in InvalidTexts, mode \in {"filename", "content", "both"}}

InitRegex ==
    /\ fs \in RegexFilesystems
    /\ engine = [priority_mode |-> FALSE, max_workers |-> 1,
                 priority_callback |-> FALSE]
    /\ query \in RegexQueries
    /\ search_paths = << DirRef(1) >>
    /\ pending = << query >>
    /\ Fresh

SpecRegex == InitRegex /\ [][NextCalls]_vars

\* the text occurs, ignoring case, in the path of file i / in its content /
\* in one of the lines of its content
TextInPath(i) == OccursIn(query.query_text, EntryPath(FileRef(i)), FALSE)

TextInContent(i) == OccursIn(query.query_text, fs.files[i].content, FALSE)

TextInLine(i) ==
    \E n \in 1..Len(Lines(fs.files[i].content)) :
        OccursIn(query.query_text, Lines(fs.files[i].content)[n], FALSE)

\* the files a finished search has yielded
YieldedFiles == {yielded[k].result.node.id : k \in 1..Len(yielded)}

\* a key once stored keeps its matcher
CacheStable ==
    \A k \in DOMAIN regex_cache :
        k \in DOMAIN regex_cache' /\ regex_cache'[k] = regex_cache[k]

\* the finished search has accepted exactly the files that hold the text as
\* a literal, where the search mode looks
LiteralResults ==
    pc = "done" =>
        YieldedFiles =
            {i \in 1..Len(fs.files) :
                CASE query.search_mode = "filename" -> TextInPath(i)
                  [] query.search_mode = "content" -> TextInContent(i)
                  [] query.search_mode = "both" -> TextInPath(i) \/ TextInContent(i)}

\* the same, the content being searched line by line
LiteralLineResults ==
    pc = "done" =>
        YieldedFiles =
            {i \in 1..Len(fs.files) :
                CASE query.search_mode = "filename" -> TextInPath(i)
                  [] query.search_mode = "content" -> TextInLine(i)
                  [] query.search_mode = "both" -> TextInPath(i) \/ TextInLine(i)}

\* C14: for a query with use_regex whose text is no valid regular
\* expression the search ends without error and accepts exactly the
\* candidates in which the text occurs as a literal substring ignoring case,
\* and every later lookup of a (pattern, flags) key returns the matcher the
\* first lookup stored
C14_InvalidRegexLiteral == [](LiteralResults) /\ [][CacheStable]_vars

\* C14 amended: the candidates accepted are exactly those in which the text
\* occurs as a literal substring ignoring case of the path (mode filename),
\* of one line of the content (mode content), or of either (mode both); a
\* stored matcher is never replaced
C14_InvalidRegexLiteralAmended == [](LiteralLineResults) /\ [][CacheStable]_vars

\* the second call of "(b" in content mode has found the key in the cache
\* with the escaped matcher, and has accepted file 1
C14_Witness ==
    /\ pc = "done"
    /\ Len(match_out) = 1
    /\ query.search_mode = "content"
    /\ query.query_text = << "(", "b" >>
    /\ CacheKey(query.query_text) \in DOMAIN regex_cache
    /\ regex_cache[CacheKey(query.query_text)].escaped
    /\ 1 \in YieldedFiles


(***************************************************************************)
(* Failing entries: files whose stat fails or that cannot be opened, and   *)
(* roots that do not exist.  The caller runs the search, then runs it      *)
(* again on the filesystem without the entries and roots that failed.      *)
(***************************************************************************)

\* _matches_query opens the content of the entry: the text test of the mode
\* comes to _search_in_content
ContentIsRead(ref, q) ==
    /\ ProcessFile(ref) # None
    /\ AttributeMatch(ProcessFile(ref)[1], q)
    /\ q.query_text # << >>
    /\ \/ q.search_mode = "content"
       \/ q.search_mode = "both" /\ ~FilenameMatch(ProcessFile(ref)[1], q)

\* the search meets a failure at file i: its stat fails, or its content is
\* to be read and cannot be opened
Fails(i, q) ==
    \/ ~StatOk(FileRef(i))
    \/ ContentIsRead(FileRef(i), q) /\ ~CanOpen(FileRef(i))

\* the number of the files up to i that do not fail: the index of file i on
\* the filesystem without the failing ones
NewId(i, q) == Cardinality({j \in 1..i : ~Fails(j, q)})

WithoutFailing(q) ==
    LET kept == {i \in 1..Len(fs.files) : ~Fails(i, q)}
    IN  [dirs |-> fs.dirs,
         files |-> [n \in 1..Cardinality(kept) |->
                       fs.files[CHOOSE i \in kept : NewId(i, q) = n]]]

RECURSIVE RootsWithoutFailing(_, _)
\* the roots that exist and do not fail, named on the new filesystem
RootsWithoutFailing(paths, q) ==
    IF paths = << >> THEN << >>
    ELSE LET path == Head(paths)
             rest == RootsWithoutFailing(Tail(paths), q)
         IN  IF path.kind = "missing" THEN rest
             ELSE IF path.kind = "dir" THEN << path >> \o rest
             ELSE IF Fails(path.id, q) THEN rest
             ELSE << FileRef(NewId(path.id, q)) >> \o rest

\* the first search has returned; the caller keeps its results and searches
\* again, with the same query, the filesystem without what failed
CallAgainWithout ==
    /\ pc = "done"
    /\ match_out = << >>
    /\ match_out' = << [query |-> query, results |-> yielded,
                         search_paths |-> search_paths] >>
    /\ fs' = WithoutFailing(query)
    /\ search_paths' = RootsWithoutFailing(search_paths, query)
    /\ pc' = "start"
    /\ path_idx' = 1
    /\ walk_stack' = << >>
    /\ cur_dir' = 0
    /\ files_left' = << >>
    /\ count' = 0
    /\ yielded' = << >>
    /\ examined' = << >>
    /\ UNCHANGED << otherVars, regex_cache, engine, query, prioVars, emitted,
                    results, pending >>

FailureFilesystems ==
    {MkFs(2, [d \in 2..2 |-> 1], [d \in 2..2 |-> N_sub],
          [i \in 1..3 |->
              [dir |-> IF i = 3 THEN 2 ELSE 1,
               name |-> << Letters[i] >>,
               size |-> 1, mtime |-> 1,
               content |-> << "a" >>,
               readable |-> rd[i], stat_ok |-> st[i]]]) :
        rd \in [1..3 -> BOOLEAN], st \in [1..3 -> BOOLEAN]}

FailureQueries ==
    {[BaseQuery EXCEPT !.query_text = text, !.search_mode = mode,
                       !.max_results = cap] :
        text \in {<< >>, << "a" >>},
        mode \in {"filename", "content", "both"},
        cap \in {2, DefaultMaxResults}}

FailureRootLists ==
    {<< DirRef(1) >>, << Missing, DirRef(1) >>,
     << FileRef(1), Missing, DirRef(2) >>, << DirRef(2), FileRef(2) >>}

InitFailures ==
    /\ fs \in FailureFilesystems
    /\ engine = [priority_mode |-> FALSE, max_workers |-> 1,
                 priority_callback |-> FALSE]
    /\ query \in FailureQueries
    /\ search_paths \in FailureRootLists
    /\ pending = << >>
    /\ Fresh

NextFailures == NextPlain \/ CallAgainWithout \/ CallReturn

SpecFailures == InitFailures /\ [][NextFailures]_vars

\* the results of a call as the caller sees them: path, type, time and size
Visible(list) ==
    [k \in 1..Len(list) |->
        [file_path |-> list[k].result.file_path,
         file_type |-> list[k].result.file_type,
         timestamp |-> list[k].result.timestamp,
         size |-> list[k].result.size]]

\* both searches have returned
BothReturned == pc = "end" /\ Len(match_out) = 2

\* C15: a failing stat, a content that cannot be opened and a root that
\* does not exist raise nothing (the search returns); the failing entry
\* contributes no result, and the results are the same, in the same order,
\* as on the filesystem without the failing entries and roots
C15_FailuresRecovered ==
    /\ pc = "done" =>
           \A k \in 1..Len(yielded) :
               /\ yielded[k].result.node.kind = "file"
               /\ match_out = << >> => ~Fails(yielded[k].result.node.id, query)
    /\ BothReturned =>
           Visible(match_out[1].results) = Visible(match_out[2].results)

\* both searches have returned the file of "sub" and nothing else; the first
\* was given a root that does not exist and met two failures in content
\* mode: the files of the root are gone from the second filesystem
C15_Witness ==
    /\ BothReturned
    /\ match_out[1].search_paths = << Missing, DirRef(1) >>
    /\ query.search_mode = "content"
    /\ query.query_text = << "a" >>
    /\ Len(fs.files) = 1
    /\ Len(match_out[1].results) = 1
    /\ match_out[1].results[1].result.file_path = << "t", "/", "s", "u", "b", "/", "c" >>
    /\ Len(match_out[2].results) = 1


(***************************************************************************)
(* The entry points under an external interrupt (KeyboardInterrupt).       *)
(*                                                                         *)
(* entry names the entry point the caller runs the search through:         *)
(*   "search_command"             CLICommands.search_command               *)
(*   "SimpleSearchEngine.search"  list(self.search_iter(...))              *)
(*   "qry.search"                 list(search_iter(...))                   *)
(*   "qry.search_iter"            the library generator, consumed in a     *)
(*                                loop of the caller                       *)
(* collected is the list the loop of the entry point (for the generator,   *)
(* of its caller) has built.  A call that has ended is kept in match_out   *)
(* with what it left to the caller: the list, the interrupted tag, and     *)
(* whether it ended by raising.                                            *)
(*                                                                         *)
(* pc = "interrupted"  the interrupt has ended the walk                    *)
(***************************************************************************)

Entries ==
    {"search_command", "SimpleSearchEngine.search", "qry.search", "qry.search_iter"}

\* the entry points that hand each result to the caller as it is found
Streaming == {"search_command", "qry.search_iter"}

\* the engine generator is suspended or has not returned yet, or a result
\* it yielded has not been taken
Walking ==
    \/ pc \in {"start", "paths", "walk", "files"}
    \/ Len(collected) < Len(yielded)

\* the loop of the entry point asks the generator for its next result
EntryWalk ==
    /\ Len(collected) = Len(yielded)
    /\ NextPlain

\* the loop takes the result: collected.append(result.file_path), the
\* append of list(), or the caller's receipt of the path
EntryCollect ==
    /\ pc # "interrupted"
    /\ Len(collected) < Len(yielded)
    /\ collected' = Append(collected, yielded[Len(collected) + 1].result)
    /\ UNCHANGED << inputVars, pc, path_idx, yielded, examined, plainVars, prioVars,
                    callerVars, regex_cache, entry, interrupted, raised, incVars, lateVars >>

\* the interrupt arrives during the walk: search_command catches it at its
\* loop and sets the flag; nothing catches it in the other entry points,
\* where it leaves the call, and with list() the list built so far is lost
KeyboardInterrupt ==
    /\ Walking
    /\ pc' = "interrupted"
    /\ IF entry = "search_command"
       THEN interrupted' = TRUE /\ UNCHANGED << raised, collected >>
       ELSE /\ raised' = TRUE
            /\ collected' = IF entry = "qry.search_iter" THEN collected ELSE << >>
            /\ UNCHANGED interrupted
    /\ UNCHANGED << inputVars, path_idx, yielded, examined, plainVars, prioVars,
                    callerVars, regex_cache, entry, incVars, lateVars >>

\* mutant of CommandOutput: the collected paths are always sorted
CommandOutputSortedMutant(list, q) ==
    LET sorted == SortedByKey(list, "name")
    IN  [k \in 1..Len(sorted) |-> sorted[k].file_path]

\* search_command after its loop: the paths reported, sorted if requested
CommandOutput(list, q) ==
    LET sorted == IF SortRequested(q) THEN SortedByKey(list, q.sort_by[1]) ELSE list
    IN  [k \in 1..Len(sorted) |-> sorted[k].file_path]

\* the call ends, by returning or by the interrupt that left it; the caller
\* keeps what it holds and makes its next call
EntryEnd ==
    /\ \/ pc = "done" /\ Len(collected) = Len(yielded)
       \/ pc = "interrupted"
    /\ match_out' = Append(match_out,
                           [query |-> query,
                            results |-> IF entry = "search_command"
                                        THEN CommandOutput(collected, query)
                                        ELSE [k \in 1..Len(collected) |->
                                                 collected[k].file_path],
                            interrupted |-> interrupted,
                            raised |-> raised])
    /\ IF pending = << >>
       THEN pc' = "end" /\ UNCHANGED << query, pending >>
       ELSE pc' = "start" /\ query' = Head(pending) /\ pending' = Tail(pending)
    /\ path_idx' = 1
    /\ walk_stack' = << >>
    /\ cur_dir' = 0
    /\ files_left' = << >>
    /\ count' = 0
    /\ yielded' = << >>
    /\ examined' = << >>
    /\ collected' = << >>
    /\ interrupted' = FALSE
    /\ raised' = FALSE
    /\ UNCHANGED << fs, engine, search_paths, prioVars, emitted, results,
                    regex_cache, entry, incVars, lateVars >>

InterruptFilesystem ==
    MkFs(2, [d \in 2..2 |-> 1], [d \in 2..2 |-> N_sub], UniformFiles(2, FilesPerDir))

InterruptQueries ==
    {[BaseQuery EXCEPT !.query_text = text, !.max_results = cap] :
        text \in {<< >>, << "a" >>}, cap \in {MaxCap, DefaultMaxResults}}

InterruptRootLists ==
    {<< DirRef(1) >>, << DirRef(2), DirRef(1) >>, << FileRef(2), Missing, DirRef(2) >>}

\* the caller makes the same call twice
InitInterrupt ==
    /\ fs = InterruptFilesystem
    /\ engine = [priority_mode |-> FALSE, max_workers |-> 1,
                 priority_callback |-> FALSE]
    /\ query \in InterruptQueries
    /\ search_paths \in InterruptRootLists
    /\ pending = << query >>
    /\ entry \in Entries
    /\ collected = << >>
    /\ interrupted = FALSE
    /\ raised = FALSE
    /\ regex_cache = << >>
    /\ IncrementalIdle
    /\ LateIdle
    /\ FreshCall

NextInterrupt == EntryWalk \/ EntryCollect \/ KeyboardInterrupt \/ EntryEnd

SpecInterrupt == InitInterrupt /\ [][NextInterrupt]_vars

\* list a is the first Len(a) elements of list b, in order
IsPrefix(a, b) == Len(a) <= Len(b) /\ \A k \in 1..Len(a) : a[k] = b[k]

\* the call of record r went to its end without an interrupt
Uninterrupted(r) == ~r.interrupted /\ ~r.raised

\* C16: Plain strategy, static filesystem: when a streaming search is
\* interrupted after k results have been received, the list the caller
\* holds is exactly the first k results, in order, of the sequence the
\* uninterrupted walk produces
C16_InterruptedPrefix ==
    entry \in Streaming =>
        /\ pc = "interrupted" =>
               /\ Len(collected) <= Len(yielded)
               /\ \A k \in 1..Len(collected) : collected[k] = yielded[k].result
        /\ \A i, j \in 1..Len(match_out) :
               Uninterrupted(match_out[j]) =>
                   IsPrefix(match_out[i].results, match_out[j].results)

\* both calls of search_command have ended, the first interrupted after one
\* result of the walk of "sub" and then the root, the second not at all
C16_Witness ==
    /\ pc = "end"
    /\ entry = "search_command"
    /\ search_paths = << DirRef(2), DirRef(1) >>
    /\ match_out[1].interrupted
    /\ match_out[1].results = << << "t", "/", "s", "u", "b", "/", "a" >> >>
    /\ ~match_out[2].interrupted
    /\ Len(match_out[2].results) = 6

\* C17: an interrupt that arrives while a search is walking never leaves
\* the entry point as an error: the walk stops, the results found so far
\* are returned and the run is tagged as interrupted
C17_InterruptNeverPropagates ==
    /\ ~raised
    /\ pc = "interrupted" => interrupted /\ Len(collected) >= Len(yielded) - 1

\* the same for search_command alone
C17_CommandCatches ==
    entry = "search_command" =>
        /\ ~raised
        /\ pc = "interrupted" => interrupted /\ Len(collected) >= Len(yielded) - 1
        /\ \A k \in 1..Len(match_out) : ~match_out[k].raised


(***************************************************************************)
(* qry/engines/simple.py: _search_incremental                              *)
(*                                                                         *)
(* The consumer is the generator; each tier starts one background_search   *)
(* thread.  threads[k] = [tier, at, dirs, files] is the k-th thread        *)
(* started: tier is the index in priority_order it searches, at is where   *)
(* it stands ("begin" before the first check of the stop event, "dirs" at  *)
(* the head of the loop over the directories, "files" at the head of the   *)
(* loop over a listing, "finished" after the sentinel is put), dirs and    *)
(* files are what the two loops have still to visit.  An item of           *)
(* results_queue is a result or the sentinel None, and carries the number  *)
(* of the thread that put it.  Time is counted in units of the timeout of  *)
(* results_queue.get, and only as the two ages the code compares with the  *)
(* timeout, which stop growing once they are past it.                      *)
(*                                                                         *)
(* pc = "inc_tier"   at the head of  while current_priority_idx < ...      *)
(*      "inc_get"    at results_queue.get(timeout=0.1)                     *)
(*      "inc_yield"  suspended at  yield result                            *)
(*      "inc_join"   after stop_search.set(), in search_thread.join        *)
(*      "inc_sweep"  in the final sweep                                    *)
(*      "done"       the generator has returned                            *)
(*      "closed"     the caller has closed the generator at a yield        *)
(***************************************************************************)

\* incremental_timeout of the engine, in units of the get timeout
IncrementalTimeout == 2

\* the tiers up to this index may be started while earlier threads are
\* still running; the later ones are started after every thread has finished
LagTiers == 1

priority_order ==
    << SOURCE, PROJECT, CONFIG, MAIN, MODULES, UTILS, BUILD, CACHE, TEMP,
       GENERATED, EXCLUDED >>

\* an age after d more units; past the timeout the exact value is not kept
Later(age, d) ==
    IF age + d > IncrementalTimeout THEN IncrementalTimeout + 1 ELSE age + d

\* time.time() - t > timeout
Expired(age) == age > IncrementalTimeout

RECURSIVE DirsOfPriority(_, _, _, _)
\* _collect_dirs_for_priority, the os.walk loop over the visited directories
\* of the idx-th search path: those of the target priority, each with the
\* search path it was found under
DirsOfPriority(visited, idx, target, q) ==
    IF visited = << >> THEN << >>
    ELSE LET d == Head(visited)
             root == search_paths[idx].id
             rest == DirsOfPriority(Tail(visited), idx, target, q)
         IN  IF GetDirectoryPriority(RelPathSegments(root, d)) = target
             THEN << [dir |-> d, depth |-> DepthOf(root, d), root |-> idx] >> \o rest
             ELSE rest

RECURSIVE CollectDirsForPriority(_, _, _)
\* _collect_dirs_for_priority from the idx-th search path on: missing paths
\* and files are skipped
CollectDirsForPriority(idx, target, q) ==
    IF idx > Len(search_paths) THEN << >>
    ELSE (IF search_paths[idx].kind = "dir"
          THEN DirsOfPriority(WalkAll(<< search_paths[idx].id >>, q), idx, target, q)
          ELSE << >>)
         \o CollectDirsForPriority(idx + 1, target, q)

Sentinel(k) == [kind |-> "None", by |-> k]

\* the finally clause of background_search: results_queue.put(None)
Finish(k) ==
    /\ threads' = [threads EXCEPT ![k].at = "finished", ![k].dirs = << >>]
    /\ results_queue' = Append(results_queue, Sentinel(k))

\* background_search up to the loop over the directories: the check of the
\* stop event, then _collect_dirs_for_priority
BackgroundBegin ==
    \E k \in 1..Len(threads) :
        /\ threads[k].at = "begin"
        /\ IF stop_search
           THEN Finish(k)
           ELSE /\ threads' = [threads EXCEPT
                                  ![k].at = "dirs",
                                  ![k].dirs = CollectDirsForPriority(
                                                  1, priority_order[threads[k].tier + 1],
                                                  query)]
                /\ UNCHANGED results_queue
        /\ UNCHANGED << inputVars, pc, path_idx, yielded, examined, plainVars,
                        prioVars, callerVars, regex_cache, intrVars, lateVars,
                        current_priority_idx, stop_search, found_results,
                        since_start, since_last, tier_ends >>

\* one iteration of  for dir_path, depth in dirs_at_priority  up to the loop
\* over the listing; after the last, or on the stop event, the thread ends
BackgroundNextDir ==
    \E k \in 1..Len(threads) :
        /\ threads[k].at = "dirs"
        /\ IF threads[k].dirs = << >> \/ stop_search
           THEN Finish(k)
           ELSE LET item == Head(threads[k].dirs)
                    listed == ListDir(item.dir)
                IN  /\ threads' = [threads EXCEPT
                                      ![k].at = "files",
                                      ![k].dirs = Tail(@),
                                      ![k].files = [n \in 1..Len(listed) |->
                                                       [ref |-> listed[n],
                                                        root |-> item.root]]]
                    /\ UNCHANGED results_queue
        /\ UNCHANGED << inputVars, pc, path_idx, yielded, examined, plainVars,
                        prioVars, callerVars, regex_cache, intrVars, lateVars,
                        current_priority_idx, stop_search, found_results,
                        since_start, since_last, tier_ends >>

\* one iteration of  for file in files : the stop event breaks this loop
\* only; otherwise the entry is processed and, if accepted, put
BackgroundNextFile ==
    \E k \in 1..Len(threads) :
        /\ threads[k].at = "files"
        /\ IF threads[k].files = << >> \/ stop_search
           THEN /\ threads' = [threads EXCEPT ![k].at = "dirs", ![k].files = << >>]
                /\ UNCHANGED << results_queue, examined, regex_cache >>
           ELSE LET entry_ == Head(threads[k].files)
                IN  /\ threads' = [threads EXCEPT ![k].files = Tail(@)]
                    /\ UNCHANGED examined
                    /\ regex_cache' = CacheAfterMatch({entry_.ref}, query)
                    /\ results_queue' =
                           IF Accepts(entry_.ref, query)
                           THEN Append(results_queue,
                                       [kind |-> "result",
                                        item |-> Yielded(entry_.ref, entry_.root),
                                        by |-> k])
                           ELSE results_queue
        /\ UNCHANGED << inputVars, pc, path_idx, yielded, plainVars, prioVars,
                        callerVars, intrVars, lateVars, current_priority_idx, stop_search,
                        found_results, since_start, since_last, tier_ends >>

\* the consumer leaves the loop over the queue: the way it left this time
\* is kept in tier_ends, and line 393 sets the stop event
LeaveTier(cause, by, start_age, age) ==
    /\ tier_ends' = << [tier |-> current_priority_idx, cause |-> cause,
                        by |-> by, since_start |-> start_age,
                        since_last |-> age, found_results |-> found_results] >>
    /\ stop_search' = TRUE
    /\ pc' = "inc_join"

Running == {k \in 1..Len(threads) : threads[k].at # "finished"}

\* _search_incremental up to the while loop (lines 297-348)
IncrementalStart ==
    /\ pc = "start"
    /\ pc' = "inc_tier"
    /\ current_priority_idx' = 0
    /\ found_results' = FALSE
    /\ since_start' = 0
    /\ UNCHANGED << inputVars, path_idx, yielded, examined, plainVars, prioVars,
                    callerVars, regex_cache, intrVars, lateVars, results_queue, stop_search,
                    threads, since_last, tier_ends >>

\* the head of the while loop: the thread of the tier is started (lines
\* 350-365), or after the last tier the sweep begins
IncrementalStartTier ==
    /\ pc = "inc_tier"
    /\ IF current_priority_idx < Len(priority_order)
       THEN /\ Running = {} \/ current_priority_idx <= LagTiers
            /\ threads' = Append(threads, [tier |-> current_priority_idx,
                                           at |-> "begin", dirs |-> << >>,
                                           files |-> << >>])
            /\ since_last' = 0
            /\ pc' = "inc_get"
       ELSE /\ pc' = "inc_sweep"
            /\ UNCHANGED << threads, since_last >>
    /\ UNCHANGED << inputVars, path_idx, yielded, examined, plainVars, prioVars,
                    callerVars, regex_cache, intrVars, lateVars, current_priority_idx,
                    results_queue, stop_search, found_results, since_start,
                    tier_ends >>

\* results_queue.get returns an item: None ends the tier, a result is
\* yielded (lines 369-376)
IncrementalGet ==
    /\ pc = "inc_get"
    /\ results_queue # << >>
    /\ results_queue' = Tail(results_queue)
    /\ IF Head(results_queue).kind = "None"
       THEN /\ LeaveTier("sentinel", Head(results_queue).by, since_start, since_last)
            /\ UNCHANGED << yielded, found_results, since_last >>
       ELSE /\ found_results' = TRUE
            /\ since_last' = 0
            /\ yielded' = Append(yielded, Head(results_queue).item)
            /\ pc' = "inc_yield"
            /\ UNCHANGED << tier_ends, stop_search >>
    /\ UNCHANGED << inputVars, path_idx, examined, plainVars, prioVars, callerVars,
                    regex_cache, intrVars, lateVars, current_priority_idx, threads,
                    since_start >>

\* results_queue.get raises queue.Empty after its timeout (lines 383-390)
IncrementalGetEmpty ==
    /\ pc = "inc_get"
    /\ results_queue = << >>
    /\ since_start' = Later(since_start, 1)
    /\ since_last' = Later(since_last, 1)
    /\ IF \/ ~found_results /\ Expired(Later(since_start, 1))
          \/ Expired(Later(since_last, 1))
       THEN LeaveTier("timeout", 0, Later(since_start, 1), Later(since_last, 1))
       ELSE UNCHANGED << pc, tier_ends, stop_search >>
    /\ UNCHANGED << inputVars, path_idx, yielded, examined, plainVars, prioVars,
                    callerVars, regex_cache, intrVars, lateVars, current_priority_idx,
                    results_queue, threads, found_results >>

\* time passes while the generator is suspended at the yield
CallerDelay ==
    /\ pc = "inc_yield"
    /\ ~Expired(since_last)
    /\ since_start' = Later(since_start, 1)
    /\ since_last' = Later(since_last, 1)
    /\ UNCHANGED << inputVars, pc, path_idx, yielded, examined, plainVars, prioVars,
                    callerVars, regex_cache, intrVars, lateVars, current_priority_idx,
                    results_queue, stop_search, threads, found_results, tier_ends >>

\* the caller asks for the next result: the test after the yield (lines
\* 378-381)
IncrementalResume ==
    /\ pc = "inc_yield"
    /\ IF Expired(since_last)
       THEN LeaveTier("timeout", 0, since_start, since_last)
       ELSE pc' = "inc_get" /\ UNCHANGED << tier_ends, stop_search >>
    /\ UNCHANGED << inputVars, path_idx, yielded, examined, plainVars, prioVars,
                    callerVars, regex_cache, intrVars, lateVars, current_priority_idx,
                    results_queue, threads, found_results, since_start, since_last >>

\* the caller closes the generator at the yield: GeneratorExit is raised
\* there, no handler and no finally clause of _search_incremental runs
IncrementalClose ==
    /\ pc = "inc_yield"
    /\ pc' = "closed"
    /\ UNCHANGED << inputVars, path_idx, yielded, examined, plainVars, prioVars,
                    callerVars, regex_cache, intrVars, incVars, lateVars >>

\* search_thread.join(timeout=0.5) returns, because the thread of the tier
\* has finished or because the timeout has passed; then lines 395-406
IncrementalJoin ==
    /\ pc = "inc_join"
    /\ stop_search' = FALSE
    /\ current_priority_idx' = current_priority_idx + 1
    /\ since_start' = 0
    /\ pc' = "inc_tier"
    /\ UNCHANGED << inputVars, path_idx, yielded, examined, plainVars, prioVars,
                    callerVars, regex_cache, intrVars, lateVars, results_queue, threads,
                    found_results, since_last, tier_ends >>

\* the final sweep (lines 411-418): get_nowait until None or queue.Empty
IncrementalSweep ==
    /\ pc = "inc_sweep"
    /\ IF results_queue = << >>
       THEN pc' = "done" /\ UNCHANGED << results_queue, yielded >>
       ELSE /\ results_queue' = Tail(results_queue)
            /\ IF Head(results_queue).kind = "None"
               THEN pc' = "done" /\ UNCHANGED yielded
               ELSE /\ yielded' = Append(yielded, Head(results_queue).item)
                    /\ pc' = "inc_sweep"
    /\ UNCHANGED << inputVars, path_idx, examined, plainVars, prioVars, callerVars,
                    regex_cache, intrVars, lateVars, current_priority_idx, stop_search,
                    threads, found_results, since_start, since_last, tier_ends >>

\* the root, "src" with two files, and "build" with one
IncrementalFilesystem ==
    MkFs(3, [d \in 2..3 |-> 1], [d \in 2..3 |-> IF d = 2 THEN N_src ELSE N_build],
         [i \in 1..3 |->
             [dir |-> IF i = 3 THEN 3 ELSE 2, name |-> << Letters[i] >>,
              size |-> 1, mtime |-> 1, content |-> << >>, readable |-> TRUE,
              stat_ok |-> TRUE]])

InitIncremental ==
    /\ fs = IncrementalFilesystem
    /\ engine = [priority_mode |-> FALSE, max_workers |-> 1,
                 priority_callback |-> FALSE]
    /\ query \in {[BaseQuery EXCEPT !.exclude_dirs = excl, !.max_depth = depth] :
                     excl \in {{}, {N_build}}, depth \in {None, Some(0)}}
    /\ search_paths \in {<< DirRef(1) >>, << Missing, DirRef(2) >>}
    /\ pending = << >>
    /\ Fresh

NextIncremental ==
    \/ IncrementalStart
    \/ IncrementalStartTier
    \/ IncrementalGet
    \/ IncrementalGetEmpty
    \/ CallerDelay
    \/ IncrementalResume
    \/ IncrementalClose
    \/ IncrementalJoin
    \/ IncrementalSweep
    \/ BackgroundBegin
    \/ BackgroundNextDir
    \/ BackgroundNextFile

SpecIncremental == InitIncremental /\ [][NextIncremental]_vars

\* the files the incremental strategy has to cover: those that pass the
\* match predicate and lie in a directory the walk of a search path visits
\* (none of its ancestors below the search path is pruned)
Coverable ==
    {<< idx, i >> \in (1..Len(search_paths)) \X (1..Len(fs.files)) :
        /\ search_paths[idx].kind = "dir"
        /\ \E n \in 1..Len(WalkAll(<< search_paths[idx].id >>, query)) :
               WalkAll(<< search_paths[idx].id >>, query)[n] = fs.files[i].dir
        /\ Accepts(FileRef(i), query)}

IsYielded(idx, i) ==
    \E n \in 1..Len(yielded) : yielded[n] = Yielded(FileRef(i), idx)

\* C18: Incremental strategy: when the generator has finished, every file
\* that passes the match predicate and lies in a directory that is not
\* pruned has been yielded, whatever tiers ran into the timeout and however
\* the background task and the consumer interleave.
C18_IncrementalCoversTree ==
    pc = "done" => \A c \in Coverable : IsYielded(c[1], c[2])

\* C19: the consumer leaves tier k only (a) on the completion signal put by
\* the background task of tier k, which has then finished, or (b) when at
\* least incremental_timeout has passed with no new result since tier k was
\* started or since the last result was received.
C19_TierAdvanceRule ==
    \A n \in 1..Len(tier_ends) :
        LET e == tier_ends[n]
        IN  \/ /\ e.cause = "sentinel"
               /\ threads[e.by].tier = e.tier
               /\ threads[e.by].at = "finished"
            \/ /\ e.cause = "timeout"
               /\ \/ Expired(e.since_last)
                  \/ ~e.found_results /\ Expired(e.since_start)

\* the part of C19 that holds: a tier left without a sentinel is left on a
\* timeout that has passed, and a sentinel is put by a finished thread
C19_TimeoutOrFinished ==
    \A n \in 1..Len(tier_ends) :
        LET e == tier_ends[n]
        IN  \/ e.cause = "sentinel" /\ threads[e.by].at = "finished"
            \/ /\ e.cause = "timeout"
               /\ \/ Expired(e.since_last)
                  \/ ~e.found_results /\ Expired(e.since_start)

\* C20: when the caller closes the generator at a yield, the stop signal of
\* the background search is set, so that the task ends at its next check.
C20_CloseStopsBackground == pc = "closed" => stop_search

\* C20, as a step property: once the generator is closed the background
\* threads put no further result, only their sentinels
C20_NoWorkAfterClose ==
    [][pc = "closed" => results_queue' = results_queue
                           \/ results_queue'[Len(results_queue')].kind = "None"]_vars

\* C25: Incremental strategy: in every reachable state at most one
\* background search thread is alive; the thread of tier k+1 is started
\* only after the thread of tier k has terminated.
C25_OneBackgroundThread == Cardinality(Running) <= 1

\* C28: Incremental strategy: with max_depth = d no yielded file has a
\* containing directory deeper than d below its search root.
C28_IncrementalDepthLimit ==
    query.max_depth # None =>
        \A n \in 1..Len(yielded) :
            DepthOf(RootOf(yielded[n]).id, ContainingDir(yielded[n])) <= query.max_depth[1]


(***************************************************************************)
(* qry/engines/simple.py: _cached_stat                                     *)
(*                                                                         *)
(* _cached_stat is os.stat behind functools.lru_cache(maxsize=10000): a    *)
(* hit returns the stored value and makes the entry the most recently      *)
(* used, a miss calls os.stat, stores the result (None for an OSError)     *)
(* and, when the cache is full, drops the least recently used entry.       *)
(* stat_cache holds the entries least recently used first.  The cache size *)
(* is scaled down to StatCacheMaxSize.                                     *)
(***************************************************************************)

\* maxsize of the lru_cache (10000 in the code)
StatCacheMaxSize == 2

\* lookups in one run of the model, at most
MaxLookups == 4

\* os.stat(file_path) inside _cached_stat: the stat result, None on OSError
OsStat(ref) ==
    IF StatOk(ref)
    THEN Some([st_size |-> EntrySize(ref), st_mtime |-> EntryMtime(ref)])
    ELSE None

\* the position of the entry of a path in the cache, 0 when it has none
CacheSlot(ref) ==
    IF \E n \in 1..Len(stat_cache) : stat_cache[n].path = ref
    THEN CHOOSE n \in 1..Len(stat_cache) : stat_cache[n].path = ref
    ELSE 0

\* mutant of CachedStat: every lookup stats the file
CachedStatMutant(ref) == OsStat(ref)

\* the value _cached_stat(file_path) returns
CachedStat(ref) ==
    IF CacheSlot(ref) # 0 THEN stat_cache[CacheSlot(ref)].st ELSE OsStat(ref)

\* the sequence without its n-th element
WithoutSlot(seq, n) == SubSeq(seq, 1, n - 1) \o SubSeq(seq, n + 1, Len(seq))

\* the cache after _cached_stat(file_path)
StatCacheAfter(ref) ==
    IF CacheSlot(ref) # 0
    THEN Append(WithoutSlot(stat_cache, CacheSlot(ref)), stat_cache[CacheSlot(ref)])
    ELSE Append(IF Len(stat_cache) >= StatCacheMaxSize
                THEN Tail(stat_cache) ELSE stat_cache,
                [path |-> ref, st |-> OsStat(ref)])

\* _process_file with use_cache set, for any path: the lookup, and what it
\* returned, is kept in match_out
ProcessFileCached ==
    /\ pc = "stat"
    /\ Len(match_out) < MaxLookups
    /\ \E i \in 1..Len(fs.files) :
           /\ match_out' = Append(match_out,
                                  [path |-> FileRef(i),
                                   stat |-> CachedStat(FileRef(i)),
                                   hit |-> CacheSlot(FileRef(i)) # 0,
                                   on_disk |-> OsStat(FileRef(i)),
                                   result |-> IF CachedStat(FileRef(i)) = None THEN None
                                              ELSE Some([file_path |-> EntryPath(FileRef(i)),
                                                         size |-> CachedStat(FileRef(i))[1].st_size,
                                                         timestamp |-> CachedStat(FileRef(i))[1].st_mtime])])
           /\ stat_cache' = StatCacheAfter(FileRef(i))
    /\ UNCHANGED << inputVars, pc, path_idx, yielded, examined, plainVars, prioVars,
                    emitted, results, pending, regex_cache, intrVars, incVars,
                    parVars, sharedVars >>

\* the environment: one of the files grows, and is then removed, while the
\* process runs
FileChanges ==
    /\ pc = "stat"
    /\ \E i \in 1..Len(fs.files) :
           /\ \A j \in 1..Len(fs.files) : j # i => fs.files[j].size = 1
           /\ \/ /\ fs.files[i].stat_ok /\ fs.files[i].size = 1
                 /\ fs' = [fs EXCEPT !.files[i].size = 2, !.files[i].mtime = 2]
              \/ /\ fs.files[i].stat_ok /\ fs.files[i].size = 2
                 /\ fs' = [fs EXCEPT !.files[i].stat_ok = FALSE]
    /\ UNCHANGED << engine, query, search_paths, pc, path_idx, yielded, examined,
                    plainVars, prioVars, callerVars, regex_cache, otherVars >>

\* one directory with one file more than the cache holds
StatFilesystem ==
    MkFs(1, << >>, << >>,
         [i \in 1..(StatCacheMaxSize + 1) |->
             [dir |-> 1, name |-> << Letters[i] >>, size |-> 1, mtime |-> 1,
              content |-> << >>, readable |-> TRUE, stat_ok |-> TRUE]])

InitStat ==
    /\ fs = StatFilesystem
    /\ search_paths = << DirRef(1) >>
    /\ pending = << >>
    /\ pc = "stat"
    /\ Quiet

NextStat == ProcessFileCached \/ FileChanges

SpecStat == InitStat /\ [][NextStat]_vars

\* the lookups of the path of lookup k before k
EarlierLookups(k) == {j \in 1..(k - 1) : match_out[j].path = match_out[k].path}

\* the paths other than that of lookup k looked up after lookup j and
\* before lookup k
PathsBetween(j, k) ==
    {match_out[m].path : m \in {n \in (j + 1)..(k - 1) :
                                   match_out[n].path # match_out[k].path}}

DirectoryPriorityCall ==
    /\ pc = "rules"
    /\ pending # << >>
    /\ match_out' = Append(match_out,
                           [query |-> Head(pending),
                            results |-> GetDirectoryPriority(Head(pending))])
    /\ pending' = Tail(pending)
    /\ pc' = IF Tail(pending) = << >> THEN "end" ELSE "rules"
    /\ UNCHANGED << otherVars, inputVars, path_idx, yielded, examined, plainVars,
                    prioVars, emitted, results, regex_cache >>

\* segments of a path, at most
MaxSegments == 2

N_lib == << "l", "i", "b" >>

N_test == << "t", "e", "s", "t" >>

N_tests == << "t", "e", "s", "t", "s" >>

N_xgit == << "x", "g", "i", "t" >>

N_dot_tox == << ".", "t", "o", "x" >>

N_atmp == << "a", "t", "m", "p" >>

N_tmp == << "t", "m", "p" >>

N_srcs == << "s", "r", "c", "s" >>

\* names that are rule names, names that are none, and names that differ
\* from a rule name in the place of its dot
RuleTestNames ==
    {N_src, N_lib, N_test, N_tests, N_build, N_git, N_xgit, N_dot_tox, N_atmp,
     N_tmp, N_srcs, N_sub}

\* the relative paths: one to MaxSegments names
RuleTestPaths == UNION {[1..k -> RuleTestNames] : k \in 1..MaxSegments}

InitRules ==
    /\ fs = OneFile(<< >>, 0)
    /\ search_paths = << FileRef(1) >>
    /\ pending \in {<< p >> : p \in RuleTestPaths}
    /\ pc = "rules"
    /\ Quiet

SpecRules == InitRules /\ [][DirectoryPriorityCall]_vars

RECURSIVE NamesOf(_)
\* the directory names a rule stands for: its dot read as a dot, its
\* optional letter present or absent
NamesOf(atoms) ==
    IF atoms = << >> THEN {<< >>}
    ELSE {<< Head(atoms).ch >> \o rest : rest \in NamesOf(Tail(atoms))}
         \cup (IF Head(atoms).opt THEN NamesOf(Tail(atoms)) ELSE {})

\* the rules of which a name is a whole segment of the path
NamedRules(segments) ==
    {i \in 1..Len(PRIORITY_PATTERNS) :
        \E n \in 1..Len(segments) : segments[n] \in NamesOf(PRIORITY_PATTERNS[i].segment)}

\* the tier of the first rule, in table order, of which a name is a segment
ByName(segments) ==
    IF NamedRules(segments) = {} THEN MAIN
    ELSE PRIORITY_PATTERNS[CHOOSE i \in NamedRules(segments) :
                               \A j \in NamedRules(segments) : i <= j].priority

\* C22: _get_directory_priority returns the tier of the first rule, in
\* table order, whose directory name is literally equal to one whole
\* segment of the path, and MAIN when no segment equals the name of a rule.
C22_FirstRuleByName ==
    \A k \in 1..Len(match_out) :
        match_out[k].results = ByName(match_out[k].query)

\* a segment that differs from a rule name only where the rule has its dot
DotLookalike(segment) ==
    \E i \in 1..Len(PRIORITY_PATTERNS) :
        /\ SegmentMatches(PRIORITY_PATTERNS[i].segment, segment)
        /\ segment \notin NamesOf(PRIORITY_PATTERNS[i].segment)

\* the part of C22 that holds: on paths without such a segment the result
\* is the tier of the first rule named by a segment
C22_WithoutLookalikes ==
    \A k \in 1..Len(match_out) :
        (\A n \in 1..Len(match_out[k].query) : ~DotLookalike(match_out[k].query[n]))
            => match_out[k].results = ByName(match_out[k].query)


(***************************************************************************)
(* The progress callback of the Priority strategy                          *)
(***************************************************************************)

\* the directories under the r-th search path that are eligible: no name
\* on the way down from the root is excluded, and the depth is within the
\* limit
EligibleDirs(r) ==
    {d \in 1..Len(fs.dirs) :
        /\ IsUnder(search_paths[r].id, d)
        /\ Range(RelSegments(search_paths[r].id, d)) \cap query.exclude_dirs = {}
        /\ ~TooDeep(DepthOf(search_paths[r].id, d), query)}

\* the eligible directories, each with its search path
Eligible ==
    UNION {{<< r, d >> : d \in EligibleDirs(r)} :
           r \in {i \in 1..Len(search_paths) : search_paths[i].kind = "dir"}}

\* the directories the strategy has put under a tier, each with its search
\* path and that tier
Bucketed ==
    UNION {{<< all_dirs_by_priority[t][n].root, all_dirs_by_priority[t][n].dir, t >> :
               n \in 1..Len(all_dirs_by_priority[t])} : t \in Tiers}

RECURSIVE PathsReported(_)
\* the number of paths in the first k calls of the observer
PathsReported(k) ==
    IF k = 0 THEN 0 ELSE PathsReported(k - 1) + Len(callbacks[k].result_paths)

\* C23: Priority strategy with an observer: it is called once for each tier
\* that has an eligible directory, in descending tier order, with index 1,
\* 2, ..., total; the call for a tier comes after all results of that tier
\* and before any result of the next, and its path list is exactly the
\* results yielded for that tier.  (The tier of a directory is the one the
\* strategy has put it under; the directories put under a tier are exactly
\* the eligible ones.)
C23_ProgressNotification ==
    LET tiered == Bucketed
        tiers == SortedPriorities({t[3] : t \in tiered})
        inside == InDirRoots
        before == Len(yielded) - Cardinality(inside)
        called == Len(callbacks)
        InTier(i, t) == << yielded[i].root, ContainingDir(yielded[i]), t >> \in tiered
    IN  IF pc \in {"start", "prio_collect"}
        THEN called = 0 /\ inside = {}
        ELSE /\ {<< t[1], t[2] >> : t \in tiered} = Eligible
             /\ called <= Len(tiers)
             /\ pc = "done" => called = Len(tiers)
             /\ inside = (before + 1)..Len(yielded)
             /\ \A k \in 1..called :
                    /\ callbacks[k].priority_name = PriorityName(tiers[k])
                    /\ callbacks[k].current = k
                    /\ callbacks[k].total = Len(tiers)
                    /\ before + PathsReported(k) <= Len(yielded)
                    /\ \A j \in 1..Len(callbacks[k].result_paths) :
                           LET i == before + PathsReported(k - 1) + j
                           IN  /\ yielded[i].result.file_path = callbacks[k].result_paths[j]
                               /\ InTier(i, tiers[k])
             /\ \A i \in (before + PathsReported(called) + 1)..Len(yielded) :
                    /\ called < Len(tiers)
                    /\ InTier(i, tiers[called + 1])

\* a finished search with two calls of the observer, each with results
C23_Witness ==
    /\ pc = "done"
    /\ Len(callbacks) = 2
    /\ callbacks[1].result_paths # << >>
    /\ callbacks[2].result_paths # << >>
    /\ callbacks[2].current = 2


(***************************************************************************)
(* qry/engines/simple.py: get_content_snippet                              *)
(*                                                                         *)
(* The snippet string is "\n".join of the lines f"{prefix} {j + 1}:        *)
(* {lines[j].rstrip()}"; it is kept here as the sequence of its lines,     *)
(* each [marker (the prefix is the marker), number, text].                 *)
(***************************************************************************)

\* max(0, i - context_lines), i counted from 0
SnippetStart(i, context_lines) ==
    IF i - context_lines > 0 THEN i - context_lines ELSE 0

\* mutant of SnippetEnd: the context after the match is one line short
SnippetEndMutant(i, context_lines, n) ==
    IF i + context_lines < n THEN i + context_lines ELSE n

\* min(len(lines), i + context_lines + 1)
SnippetEnd(i, context_lines, n) ==
    IF i + context_lines + 1 < n THEN i + context_lines + 1 ELSE n

\* hit = rx.search(line) if rx else any(t in line.lower() for t in terms)
SnippetHit(line, query_text, use_regex) ==
    LET q_lower == LowerS(query_text)
        terms == IF Contains(q_lower, OrDelimiter) THEN OrTerms(q_lower)
                 ELSE << q_lower >>
    IN  IF use_regex THEN CachedRegexSearch(query_text, line)
        ELSE \E t \in 1..Len(terms) : Contains(LowerS(line), terms[t])

\* get_content_snippet(file_path, query_text, context_lines, use_regex)
GetContentSnippet(ref, query_text, context_lines, use_regex) ==
    IF ~CanOpen(ref) THEN None
    ELSE LET lines == Lines(EntryData(ref))
             hits == {i \in 0..(Len(lines) - 1) :
                         SnippetHit(lines[i + 1], query_text, use_regex)}
         IN  IF hits = {} THEN None
             ELSE LET i == CHOOSE h \in hits : \A g \in hits : h <= g
                      start == SnippetStart(i, context_lines)
                      end == SnippetEnd(i, context_lines, Len(lines))
                  IN  Some([k \in 1..(end - start) |->
                               [marker |-> start + k - 1 = i,
                                number |-> start + k,
                                text |-> RStrip(lines[start + k])]])

\* one call of get_content_snippet on the file of the filesystem
SnippetCall ==
    /\ pc = "snippet"
    /\ pending # << >>
    /\ LET call == Head(pending)
       IN  /\ match_out' = Append(match_out,
                                  [query |-> call,
                                   results |-> GetContentSnippet(FileRef(1), call.query_text,
                                                                 call.context_lines,
                                                                 call.use_regex)])
           /\ regex_cache' = IF call.use_regex THEN CacheAfterLookup(call.query_text)
                             ELSE regex_cache
    /\ pending' = Tail(pending)
    /\ pc' = IF Tail(pending) = << >> THEN "end" ELSE "snippet"
    /\ UNCHANGED << otherVars, inputVars, path_idx, yielded, examined, plainVars,
                    prioVars, emitted, results >>

\* lines of a file, at most
MaxLines == 3

\* context_lines, at most
MaxContext == 1

\* the lines of the files, without their line ends
SnippetLines == {<< >>, << "a" >>, << "A", " " >>, << "b" >>}

RECURSIVE JoinLines(_, _)
\* the text of the lines, each but the last ended by a line break, the last
\* one too when closed is set
JoinLines(lines, closed) ==
    IF lines = << >> THEN << >>
    ELSE IF Len(lines) = 1
         THEN Head(lines) \o (IF closed THEN << "\n" >> ELSE << >>)
         ELSE Head(lines) \o << "\n" >> \o JoinLines(Tail(lines), closed)

SnippetContents ==
    {JoinLines(ls, closed) :
        ls \in UNION {[1..k -> SnippetLines] : k \in 0..MaxLines},
        closed \in BOOLEAN}

SnippetTexts ==
    {<< >>, << "a" >>, << "A" >>, << "b" >>, << "a", " " >>,
     << "b", " ", "o", "r", " ", "a" >>, OrDelimiter, << "^", "a" >>,
     << "b", "$" >>, << "(" >>}

SnippetCalls ==
    {[query_text |-> t, context_lines |-> c, use_regex |-> r] :
        t \in SnippetTexts, c \in 0..MaxContext, r \in BOOLEAN}

InitSnippet ==
    /\ \E data \in SnippetContents, rd \in BOOLEAN :
           fs = [OneFile(data, Len(data)) EXCEPT !.files[1].readable = rd]
    /\ search_paths = << FileRef(1) >>
    /\ pending \in {<< c >> : c \in SnippetCalls}
    /\ pc = "snippet"
    /\ Quiet

SpecSnippet == InitSnippet /\ [][SnippetCall]_vars

\* the lines of the file of the filesystem
FileLines == Lines(fs.files[1].content)

\* the (1-based) numbers of the lines a call matches: the text, or one of
\* its OR terms, occurs in the line ignoring case, or the regex finds a
\* match in the line
MatchingLines(call) ==
    {i \in 1..Len(FileLines) : SnippetHit(FileLines[i], call.query_text, call.use_regex)}

\* C24: get_content_snippet: when the file can be read and some line
\* matches, the result is the lines max(1, i - c) .. min(n, i + c), i the
\* number of the first matching line and n the number of lines, each with
\* its own number and the marker on line i only; otherwise it is None.
C24_ContentSnippet ==
    \A k \in 1..Len(match_out) :
        LET call == match_out[k].query
            out == match_out[k].results
            hits == MatchingLines(call)
        IN  IF ~fs.files[1].readable \/ hits = {}
            THEN out = None
            ELSE LET i == CHOOSE h \in hits : \A g \in hits : h <= g
                     lo == IF i - call.context_lines > 1 THEN i - call.context_lines ELSE 1
                     hi == IF i + call.context_lines < Len(FileLines)
                           THEN i + call.context_lines ELSE Len(FileLines)
                 IN  /\ out # None
                     /\ Len(out[1]) = hi - lo + 1
                     /\ \A j \in lo..hi :
                            /\ out[1][j - lo + 1].number = j
                            /\ out[1][j - lo + 1].marker = (j = i)
                            /\ out[1][j - lo + 1].text = RStrip(FileLines[j])

\* a match on the second of three lines with one line of context
C24_Witness ==
    /\ Len(match_out) = 1
    /\ match_out[1].query.context_lines = 1
    /\ match_out[1].results # None
    /\ Len(match_out[1].results[1]) = 3
    /\ match_out[1].results[1][2].marker
    /\ match_out[1].results[1][2].number = 2
    /\ match_out[1].results[1][3].text = << "A" >>


(***************************************************************************)
(* The Priority strategy against the Plain strategy: the caller searches   *)
(* with an engine in priority mode, keeps the results, and searches the    *)
(* same paths with the same query with an engine that is not.              *)
(***************************************************************************)

\* list(engine.search_iter(query, paths)) has returned; the second engine is
\* SimpleSearchEngine(priority_mode=False)
SearchAgainPlain ==
    /\ pc = "done"
    /\ engine.priority_mode
    /\ match_out' = Append(match_out, [query |-> query, results |-> yielded])
    /\ engine' = [engine EXCEPT !.priority_mode = FALSE]
    /\ pc' = "start"
    /\ path_idx' = 1
    /\ count' = 0
    /\ yielded' = << >>
    /\ examined' = << >>
    /\ UNCHANGED << otherVars, regex_cache, fs, query, search_paths, walk_stack,
                    cur_dir, files_left, prioVars, emitted, results, pending >>

InitCompare ==
    /\ fs \in PrioFilesystems
    /\ engine = [priority_mode |-> TRUE, max_workers |-> 1,
                 priority_callback |-> FALSE]
    /\ query \in {q \in PrioQueries : q.max_results = DefaultMaxResults}
    /\ search_paths \in PlainRootLists
    /\ pending = << >>
    /\ Fresh

NextCompare == NextPriority \/ PlainNextPath \/ PlainWalkDir \/ PlainNextFile
                   \/ SearchAgainPlain

SpecCompare == InitCompare /\ [][NextCompare]_vars

\* the set of paths of a list of yielded results
PathSet(ys) == {ys[k].result.file_path : k \in 1..Len(ys)}

\* both searches have returned
BothDone == pc = "done" /\ ~engine.priority_mode /\ Len(match_out) = 1

\* C26: Priority strategy and Plain strategy yield the same set of paths
\* (cap not reached); the Priority strategy yields only file entries, never
\* the path of a subdirectory, and nothing named in exclude_dirs.
C26_PrioritySameAsPlain ==
    BothDone =>
        /\ PathSet(match_out[1].results) = PathSet(yielded)
        /\ \A k \in 1..Len(match_out[1].results) :
               LET y == match_out[1].results[k]
               IN  /\ y.result.node.kind = "file"
                   /\ EntryName(y.result.node) \notin query.exclude_dirs

\* the part of C26 that holds: the files the Priority strategy yields are
\* the files the Plain strategy yields
C26_SameFiles ==
    BothDone =>
        {y \in Range(match_out[1].results) : y.result.node.kind = "file"}
            = Range(yielded)


(***************************************************************************)
(* qry/engines/simple.py: _filter_dirs_by_date on the children of a        *)
(* directory                                                               *)
(***************************************************************************)

\* one call of _filter_dirs_by_date(root, dirs, date_range), dirs being the
\* children of the root
FilterDirsCall ==
    /\ pc = "dates"
    /\ pending # << >>
    /\ match_out' = Append(match_out,
                           [query |-> Head(pending),
                            results |-> FilterDirsByDate(SubDirs(1), Head(pending).date_range)])
    /\ pending' = Tail(pending)
    /\ pc' = IF Tail(pending) = << >> THEN "end" ELSE "dates"
    /\ UNCHANGED << otherVars, regex_cache, inputVars, path_idx, yielded, examined,
                    plainVars, prioVars, emitted, results >>

N_2024 == << "2", "0", "2", "4" >>

N_2023 == << "2", "0", "2", "3" >>

N_202403 == << "2", "0", "2", "4", "0", "3" >>

N_2024_03 == << "2", "0", "2", "4", "-", "0", "3" >>

N_2024_03_15 == << "2", "0", "2", "4", "-", "0", "3", "-", "1", "5" >>

N_20240401 == << "2", "0", "2", "4", "0", "4", "0", "1" >>

N_15_03_2024 == << "1", "5", "-", "0", "3", "-", "2", "0", "2", "4" >>

N_mar_2024 == << "m", "a", "r", "_", "2", "0", "2", "4" >>

N_v2024 == << "v", "2", "0", "2", "4" >>

N_2024_13 == << "2", "0", "2", "4", "-", "1", "3" >>

N_2024_02_30 == << "2", "0", "2", "4", "-", "0", "2", "-", "3", "0" >>

DateDirNames ==
    {N_src, N_2024, N_2023, N_202403, N_2024_03, N_2024_03_15, N_20240401,
     N_15_03_2024, N_mar_2024, N_v2024, N_2024_13, N_2024_02_30}

\* the ends of the date ranges
March1 == DateTime(2024, 3, 1, 0)

March15 == DateTime(2024, 3, 15, 0)

March15Noon == DateTime(2024, 3, 15, 12)

March31 == DateTime(2024, 3, 31, 0)

DateRanges ==
    {None, Some(<< March1, March31 >>), Some(<< March15, March15 >>),
     Some(<< March15, March15Noon >>), Some(<< March15Noon, March31 >>),
     Some(<< March1, DateTime(2025, 1, 1, 0) >>)}

\* a root with two directories below it, named differently
DateFilesystems ==
    {MkFs(3, [d \in 2..3 |-> 1], nm, UniformFiles(3, 1)) :
        nm \in {f \in [2..3 -> DateDirNames] : f[2] # f[3]}}

InitDates ==
    /\ fs \in DateFilesystems
    /\ search_paths = << DirRef(1) >>
    /\ pending \in {<< [date_range |-> r] >> : r \in DateRanges}
    /\ pc = "dates"
    /\ Quiet

SpecDates == InitDates /\ [][FilterDirsCall]_vars

\* what a directory name says it holds: "day", "month" or "year", by the
\* format that parses it or the groups of the date pattern that took part
DateUnit(name) ==
    LET cleaned == Strip(name)
        parsing == ParsingFormats(cleaned)
        f == CHOOSE a \in parsing : \A b \in parsing : a <= b
        groups == DatePatternSearch(cleaned)[1]
    IN  IF parsing # {}
        THEN (IF f <= 5 THEN "day" ELSE IF f = 7 THEN "year" ELSE "month")
        ELSE IF groups.day # None THEN "day"
             ELSE IF groups.month # None THEN "month" ELSE "year"

\* the last hour of the period that begins at the parsed date: of the day,
\* of the month, or of the year
PeriodEnd(name) ==
    LET first == ParseDirDate(name)[1]
        day == first \div 24
    IN  CASE DateUnit(name) = "day" -> first + 23
          [] DateUnit(name) = "month" -> ((day \div 100) * 100 + 31) * 24 + 23
          [] OTHER -> ((day \div 10000) * 10000 + 1231) * 24 + 23

\* the name is a date and no moment of its period lies in the range
WhollyOutside(name, range) ==
    /\ ParseDirDate(name) # None
    /\ \/ PeriodEnd(name) < range[1]
       \/ ParseDirDate(name)[1] > range[2]

\* the children of the root a call has dropped
Pruned(k) == Range(SubDirs(1)) \ Range(match_out[k].results)

\* C30: _filter_dirs_by_date prunes a child only if its name parses as a
\* date and the whole day, month or year it names is outside [start, end];
\* so a day equal to start or end, a month or year that overlaps the range
\* and a name that is no date are kept.
C30_PrunesOnlyWhollyOutside ==
    \A k \in 1..Len(match_out) :
        \A d \in Pruned(k) :
            /\ match_out[k].query.date_range # None
            /\ WhollyOutside(fs.dirs[d].name, match_out[k].query.date_range[1])

\* the part of C30 that holds: a directory named for a day is pruned
\* exactly when its day is wholly outside a range that begins at midnight,
\* and a name in which no date is found is never pruned
C30_DayNames ==
    \A k \in 1..Len(match_out) :
        \A d \in Range(SubDirs(1)) :
            LET name == fs.dirs[d].name
                range == match_out[k].query.date_range
            IN  /\ ParseDirDate(name) = None => d \notin Pruned(k)
                /\ (/\ range # None
                    /\ range[1][1] % 24 = 0
                    /\ ParseDirDate(name) # None
                    /\ DateUnit(name) = "day")
                       => (d \in Pruned(k) <=> WhollyOutside(name, range[1]))


(***************************************************************************)
(* qry/engines/simple.py: _search_parallel and _process_directory          *)
(*                                                                         *)
(* pc = "parallel"  at the head of  for path in search_paths               *)
(*      "par_next"  at the head of  for future in as_completed(futures)    *)
(*      "par_yield" at the head of  for result in results                  *)
(*      "par_exit"  at the end of the with block: executor.shutdown(True)  *)
(* A future is "queued", "running" (a worker thread is in                  *)
(* _process_directory), "done", and "consumed" once as_completed has       *)
(* handed it out.                                                          *)
(***************************************************************************)

RECURSIVE WalkWithin(_, _, _)
\* the directories os.walk(path) visits, in order, with the pruning by
\* exclusion, date and depth (dirs[:] = [] at the depth limit)
WalkWithin(stack, root, q) ==
    IF stack = << >> THEN << >>
    ELSE << Head(stack) >>
             \o WalkWithin(DescendDirs(root, Head(stack), q) \o Tail(stack), root, q)

\* the pairs (root, depth) appended to all_dirs for the idx-th search path,
\* each with the index of the path
ParallelDirs(idx, q) ==
    LET root == search_paths[idx].id
        visited == WalkWithin(<< root >>, root, q)
        items == [k \in 1..Len(visited) |->
                     [dir |-> visited[k], depth |-> DepthOf(root, visited[k]), root |-> idx]]
        Within(item) == ~SkipFiles(root, item.dir, q)
    IN  SelectSeq(items, Within)

\* the submit loop: one future for each directory within the depth limit
Submitted(dirs, q) ==
    LET Within(item) == ~TooDeep(item.depth, q)
        kept == SelectSeq(dirs, Within)
    IN  [k \in 1..Len(kept) |-> [dir |-> kept[k].dir, root |-> kept[k].root, at |-> "queued"]]

\* _process_directory: the entries of the listing that _process_file turns
\* into a result, in listing order
ProcessDirectory(d, idx) ==
    LET listed == ListDir(d)
        entries == [k \in 1..Len(listed) |-> [ref |-> listed[k], root |-> idx]]
        HasResult(e) == ProcessFile(e.ref) # None
    IN  SelectSeq(entries, HasResult)

\* one iteration of  for path in search_paths, and after the last path the
\* submit loop
ParallelCollectPath ==
    /\ pc = "parallel"
    /\ IF path_idx > Len(search_paths)
       THEN /\ futures' = Submitted(all_dirs, query)
            /\ pc' = "par_next"
            /\ UNCHANGED << path_idx, all_dirs, count, yielded, examined >>
       ELSE LET path == search_paths[path_idx]
            IN  /\ path_idx' = path_idx + 1
                /\ UNCHANGED futures
                /\ IF path.kind = "missing"
                   THEN /\ pc' = "parallel"
                        /\ UNCHANGED << all_dirs, count, yielded, examined >>
                   ELSE IF path.kind = "file"
                   THEN /\ examined' = Append(examined, path)
                        /\ UNCHANGED all_dirs
                        /\ IF Accepts(path, query)
                           THEN /\ yielded' = Append(yielded, Yielded(path, path_idx))
                                /\ count' = count + 1
                                /\ pc' = IF CapReached(count + 1, query)
                                         THEN "done" ELSE "parallel"
                           ELSE /\ pc' = "parallel"
                                /\ UNCHANGED << count, yielded >>
                   ELSE /\ all_dirs' = all_dirs \o ParallelDirs(path_idx, query)
                        /\ pc' = "parallel"
                        /\ UNCHANGED << count, yielded, examined >>
    /\ regex_cache' = IF path_idx <= Len(search_paths)
                        /\ search_paths[path_idx].kind = "file"
                     THEN CacheAfterMatch({search_paths[path_idx]}, query)
                     ELSE regex_cache
    /\ UNCHANGED << inputVars, walk_stack, cur_dir, files_left, prioVars, callerVars,
                    intrVars, incVars, stat_cache, future_results, sharedVars >>

FuturesAt(state) == {k \in 1..Len(futures) : futures[k].at = state}

\* a worker thread of the pool takes the oldest queued future
WorkerStart ==
    /\ pc \in {"par_next", "par_yield", "par_exit"}
    /\ FuturesAt("queued") # {}
    /\ Cardinality(FuturesAt("running")) < engine.max_workers
    /\ LET k == CHOOSE a \in FuturesAt("queued") : \A b \in FuturesAt("queued") : a <= b
       IN  futures' = [futures EXCEPT ![k].at = "running"]
    /\ UNCHANGED << inputVars, pc, path_idx, yielded, examined, plainVars, prioVars,
                    callerVars, regex_cache, intrVars, incVars, stat_cache, all_dirs,
                    future_results, sharedVars >>

\* a worker thread returns from _process_directory
WorkerDone ==
    /\ pc \in {"par_next", "par_yield", "par_exit"}
    /\ \E k \in FuturesAt("running") :
           /\ futures' = [futures EXCEPT ![k].at = "done"]
           /\ examined' = examined \o [n \in 1..Len(ListDir(futures[k].dir)) |->
                                          ListDir(futures[k].dir)[n]]
    /\ UNCHANGED << inputVars, pc, path_idx, yielded, plainVars, prioVars,
                    callerVars, regex_cache, intrVars, incVars, stat_cache, all_dirs,
                    future_results, sharedVars >>

\* as_completed hands out a completed future (any of them), or ends when
\* every future has been handed out; the test of the cap before
\* future.result()
ParallelNextFuture ==
    /\ pc = "par_next"
    /\ IF FuturesAt("consumed") = 1..Len(futures)
       THEN /\ pc' = "par_exit"
            /\ UNCHANGED << futures, future_results >>
       ELSE \E k \in FuturesAt("done") :
                /\ futures' = [futures EXCEPT ![k].at = "consumed"]
                /\ IF CapReached(count, query)
                   THEN /\ pc' = "par_exit"
                        /\ UNCHANGED future_results
                   ELSE /\ future_results' = ProcessDirectory(futures[k].dir, futures[k].root)
                        /\ pc' = "par_yield"
    /\ UNCHANGED << inputVars, path_idx, yielded, examined, plainVars, prioVars,
                    callerVars, regex_cache, intrVars, incVars, stat_cache, all_dirs,
                    sharedVars >>

\* one iteration of  for result in results
ParallelYield ==
    /\ pc = "par_yield"
    /\ IF future_results = << >>
       THEN /\ pc' = "par_next"
            /\ UNCHANGED << future_results, count, yielded >>
       ELSE LET e == Head(future_results)
            IN  IF MatchesQuery(ProcessFile(e.ref)[1], query)
                THEN /\ yielded' = Append(yielded, Yielded(e.ref, e.root))
                     /\ count' = count + 1
                     /\ IF CapReached(count + 1, query)
                        THEN future_results' = << >> /\ pc' = "par_next"
                        ELSE future_results' = Tail(future_results) /\ pc' = "par_yield"
                ELSE /\ future_results' = Tail(future_results)
                     /\ pc' = "par_yield"
                     /\ UNCHANGED << count, yielded >>
    /\ regex_cache' = IF future_results # << >>
                     THEN CacheAfterMatch({Head(future_results).ref}, query)
                     ELSE regex_cache
    /\ UNCHANGED << inputVars, path_idx, examined, walk_stack, cur_dir, files_left,
                    prioVars, callerVars, intrVars, incVars, stat_cache, all_dirs,
                    futures, sharedVars >>

\* the end of the with block waits for the futures that were started or are
\* still queued; then the generator returns
ParallelExit ==
    /\ pc = "par_exit"
    /\ FuturesAt("queued") = {}
    /\ FuturesAt("running") = {}
    /\ pc' = "done"
    /\ UNCHANGED << inputVars, path_idx, yielded, examined, plainVars, prioVars,
                    callerVars, regex_cache, otherVars >>

\* list(engine.search_iter(query, paths)) has returned; the caller searches
\* again with SimpleSearchEngine(max_workers=1)
SearchAgainSingleWorker ==
    /\ pc = "done"
    /\ engine.max_workers > 1
    /\ match_out' = Append(match_out, [query |-> query, results |-> yielded])
    /\ engine' = [engine EXCEPT !.max_workers = 1]
    /\ pc' = "start"
    /\ path_idx' = 1
    /\ count' = 0
    /\ yielded' = << >>
    /\ examined' = << >>
    /\ all_dirs' = << >>
    /\ futures' = << >>
    /\ UNCHANGED << regex_cache, fs, query, search_paths, walk_stack, cur_dir,
                    files_left, prioVars, emitted, results, pending, intrVars, incVars,
                    stat_cache, future_results, sharedVars >>

\* the date range of the queries
InMarch == Some(<< March1, March31 >>)

\* two files in each of n directories, the first modified within the range,
\* the second before it
DatedFiles(n) ==
    [i \in 1..(n * 2) |->
        [UniformFiles(n, 2)[i] EXCEPT !.mtime = IF i % 2 = 1 THEN March15 ELSE 1]]

\* trees of three directories named as a day within the range, a year
\* before it, or src; the directories themselves modified within the range
\* or before it
ParallelFilesystems ==
    {[dirs |-> [d \in 1..3 |-> [MkFs(3, p, nm, << >>).dirs[d] EXCEPT !.mtime = m]],
      files |-> DatedFiles(3)] :
        p \in ParentMaps(3), m \in {1, March15},
        nm \in {f \in [2..3 -> {N_src, N_2024_03_15, N_2023}] : f[2] # f[3]}}

ParallelQueries ==
    {[BaseQuery EXCEPT !.date_range = InMarch, !.max_results = cap,
                       !.max_depth = depth, !.exclude_dirs = excl] :
        cap \in {1, DefaultMaxResults}, depth \in {None, Some(1)},
        excl \in {{}, {N_src}}}

ParallelRootLists ==
    {<< DirRef(1) >>, << FileRef(1), DirRef(1) >>, << Missing, DirRef(2) >>}

InitParallel ==
    /\ fs \in ParallelFilesystems
    /\ engine = [priority_mode |-> FALSE, max_workers |-> 2,
                 priority_callback |-> FALSE]
    /\ query \in ParallelQueries
    /\ search_paths \in ParallelRootLists
    /\ pending = << >>
    /\ Fresh

NextParallel ==
    \/ SearchIterStart
    \/ ParallelCollectPath
    \/ WorkerStart
    \/ WorkerDone
    \/ ParallelNextFuture
    \/ ParallelYield
    \/ ParallelExit
    \/ SearchAgainSingleWorker
    \/ PlainNextPath
    \/ PlainWalkDir
    \/ PlainNextFile

SpecParallel == InitParallel /\ [][NextParallel]_vars

\* the parallel search and the search with one worker have both returned,
\* neither stopped by the cap
BothSearched ==
    /\ pc = "done"
    /\ engine.max_workers = 1
    /\ Len(match_out) = 1
    /\ query.max_results = DefaultMaxResults

\* the positions in ys of the results found in directory d under root r
PositionsIn(ys, r, d) ==
    {i \in 1..Len(ys) :
        /\ search_paths[ys[i].root].kind = "dir"
        /\ ys[i].root = r
        /\ ContainingDir(ys[i]) = d}

\* the results of ys found in directory d under root r are one block of ys,
\* in the order of the listing of d
OneBlockInListingOrder(ys, r, d) ==
    LET pos == PositionsIn(ys, r, d)
        listed == ListDir(d)
        At(ref) == CHOOSE n \in 1..Len(listed) : listed[n] = ref
    IN  \A i, j \in pos :
            i < j => /\ \A m \in i..j : m \in pos
                     /\ At(ys[i].result.node) < At(ys[j].result.node)

\* C27: the parallel variant (a date range and more than one worker) yields
\* the same set of paths as the Plain strategy with one worker, and the
\* results of one directory are contiguous and in listing order.
C27_ParallelSameAsPlain ==
    BothSearched =>
        /\ PathSet(match_out[1].results) = PathSet(yielded)
        /\ \A r \in 1..Len(search_paths), d \in 1..Len(fs.dirs) :
               OneBlockInListingOrder(match_out[1].results, r, d)

\* the part of C27 that holds: the file entries agree, and each directory's
\* results are one block in listing order
C27_SameFiles ==
    BothSearched =>
        /\ {y \in Range(match_out[1].results) : y.result.node.kind = "file"}
               = Range(yielded)
        /\ \A r \in 1..Len(search_paths), d \in 1..Len(fs.dirs) :
               OneBlockInListingOrder(match_out[1].results, r, d)


(***************************************************************************)
(* qry/engines/simple.py: two search_iter generators on one engine         *)
(*                                                                         *)
(* search_iter stores the date range of its query in the attribute         *)
(* _date_range of the engine (line 220) and reads the attribute at every   *)
(* step of os.walk (lines 247-248).  generators[g] is the g-th generator:  *)
(* its query, where it stands ("start", "walk", "files", "done"), its      *)
(* os.walk stack, the files of the current directory still to process and  *)
(* what it has yielded.  Both search the directory root with one worker;   *)
(* their steps interleave in any way.                                      *)
(***************************************************************************)

\* search_iter up to the loop over the paths, and the start of os.walk on
\* the root (lines 209-242)
SharedStart(g) ==
    /\ pc = "shared"
    /\ generators[g].at = "start"
    /\ self_date_range' = generators[g].query.date_range
    /\ generators' = [generators EXCEPT ![g].at = "walk",
                                        ![g].walk_stack = << search_paths[1].id >>]
    /\ UNCHANGED << inputVars, pc, path_idx, yielded, examined, plainVars, prioVars,
                    callerVars, regex_cache, intrVars, incVars, stat_cache, parVars >>

\* one step of os.walk and the pruning of its dirs list by the exclusion
\* list and by self._date_range (lines 242-263)
SharedWalkDir(g) ==
    /\ pc = "shared"
    /\ generators[g].at = "walk"
    /\ LET gen == generators[g]
           q == gen.query
           root == search_paths[1].id
       IN  IF gen.walk_stack = << >>
           THEN generators' = [generators EXCEPT ![g].at = "done"]
           ELSE LET d == Head(gen.walk_stack)
                    dirs == FilterDirsByDate(PruneExcluded(SubDirs(d), q.exclude_dirs),
                                             self_date_range)
                    kept == IF q.max_depth # None /\ DepthOf(root, d) >= q.max_depth[1]
                            THEN << >> ELSE dirs
                IN  generators' =
                        [generators EXCEPT
                            ![g].walk_stack = kept \o Tail(gen.walk_stack),
                            ![g].at = IF SkipFiles(root, d, q) THEN "walk" ELSE "files",
                            ![g].files_left =
                                IF SkipFiles(root, d, q) THEN << >>
                                ELSE [i \in 1..Len(FilesIn(d)) |-> FileRef(FilesIn(d)[i])]]
    /\ UNCHANGED << inputVars, pc, path_idx, yielded, examined, plainVars, prioVars,
                    callerVars, regex_cache, intrVars, incVars, stat_cache, parVars,
                    self_date_range >>

\* one iteration of  for file in files  (lines 265-272)
SharedNextFile(g) ==
    /\ pc = "shared"
    /\ generators[g].at = "files"
    /\ LET gen == generators[g]
       IN  IF gen.files_left = << >>
           THEN generators' = [generators EXCEPT ![g].at = "walk"]
           ELSE LET ref == Head(gen.files_left)
                    hit == Accepts(ref, gen.query)
                    n == Len(gen.yielded) + (IF hit THEN 1 ELSE 0)
                IN  generators' =
                        [generators EXCEPT
                            ![g].files_left = Tail(gen.files_left),
                            ![g].yielded = IF hit THEN Append(gen.yielded, Yielded(ref, 1))
                                           ELSE gen.yielded,
                            ![g].at = IF hit /\ CapReached(n, gen.query)
                                      THEN "done" ELSE "files"]
    /\ UNCHANGED << inputVars, pc, path_idx, yielded, examined, plainVars, prioVars,
                    callerVars, regex_cache, intrVars, incVars, stat_cache, parVars,
                    self_date_range >>

June2023 == DateTime(2023, 6, 1, 0)

\* the date ranges of the two queries
In2023 == Some(<< DateTime(2023, 1, 1, 0), DateTime(2023, 12, 31, 0) >>)

\* two files in each of n directories, the first modified in March 2024,
\* the second in June 2023
SharedFiles(n) ==
    [i \in 1..(n * 2) |->
        [UniformFiles(n, 2)[i] EXCEPT !.mtime = IF i % 2 = 1 THEN March15 ELSE June2023]]

SharedFilesystems ==
    {[dirs |-> MkFs(3, p, nm, << >>).dirs, files |-> SharedFiles(3)] :
        p \in ParentMaps(3),
        nm \in {f \in [2..3 -> {N_src, N_2024_03_15, N_2023}] : f[2] # f[3]}}

SharedQuery(range) == [BaseQuery EXCEPT !.date_range = range]

InitShared ==
    /\ fs \in SharedFilesystems
    /\ search_paths = << DirRef(1) >>
    /\ pending = << >>
    /\ pc = "shared"
    /\ engine = [priority_mode |-> FALSE, max_workers |-> 1,
                 priority_callback |-> FALSE]
    /\ query = BaseQuery
    /\ path_idx = 1
    /\ walk_stack = << >>
    /\ cur_dir = 0
    /\ files_left = << >>
    /\ count = 0
    /\ yielded = << >>
    /\ examined = << >>
    /\ all_dirs_by_priority = [t \in Tiers |-> << >>]
    /\ tiers_left = << >>
    /\ priority_results = << >>
    /\ result_idx = 1
    /\ callbacks = << >>
    /\ emitted = << >>
    /\ results = << >>
    /\ match_out = << >>
    /\ regex_cache = << >>
    /\ NoInterrupt
    /\ IncrementalIdle
    /\ stat_cache = << >>
    /\ all_dirs = << >>
    /\ futures = << >>
    /\ future_results = << >>
    /\ self_date_range = None
    /\ \E r1, r2 \in {None, InMarch, In2023} :
           /\ r1 # r2
           /\ generators = [g \in 1..2 |->
                               [query |-> SharedQuery(IF g = 1 THEN r1 ELSE r2),
                                at |-> "start", walk_stack |-> << >>,
                                files_left |-> << >>, yielded |-> << >>]]

NextShared ==
    \E g \in 1..2 : SharedStart(g) \/ SharedWalkDir(g) \/ SharedNextFile(g)

SpecShared == InitShared /\ [][NextShared]_vars

\* what a search with query q yields when it runs alone on the engine: the
\* matching files of the directories of the walk pruned by q's own range
AloneResults(q) ==
    LET root == search_paths[1].id
        walked == Range(WalkWithin(<< root >>, root, q))
    IN  {Yielded(FileRef(i), 1) :
            i \in {j \in 1..Len(fs.files) :
                      fs.files[j].dir \in walked /\ Accepts(FileRef(j), q)}}

\* C29: two searches with different date ranges interleaved on one engine:
\* each yields the same result set as when it runs alone.
C29_SearchesDoNotInterfere ==
    \A g \in DOMAIN generators :
        generators[g].at = "done" =>
            Range(generators[g].yielded) = AloneResults(generators[g].query)

\* a search that finishes before the other one starts yields what it yields
\* alone
C29_OneAfterTheOther ==
    \A g, h \in DOMAIN generators :
        (generators[g].at = "done" /\ generators[h].at = "start" /\ g # h) =>
            Range(generators[g].yielded) = AloneResults(generators[g].query)

=============================================================================
